---- MODULE Spec2Model ----
(***************************************************************************)
(* PII Shield: the detect operation (api/routes.py detect_pii), the text   *)
(* processor (pipeline/processor.py) and the LLM validator                  *)
(* (detectors/llm_validator.py), as a state machine.                        *)
(*                                                                          *)
(* Representation.  A text is a sequence of one-character strings.  A       *)
(* confidence is an integer number of hundredths (0.90 is 90).  A string    *)
(* built by concatenation in the code (reason, detector name) is a sequence *)
(* of its parts, so that f"{d}+llm" is d \o <<"+llm">>.                      *)
(***************************************************************************)
EXTENDS Integers, Sequences, FiniteSets, TLC

VARIABLES
    op,               \* the entry point that runs: "process", "detect", "validate",
                      \* "apply", "construct", "card", "iban", "german_id" or
                      \* "get_llm_validator"
    strategy,         \* TextProcessor.strategy / the strategy whose apply is called
    args,             \* the start, end and confidence a PIIMatch is constructed with
    processed_text,   \* report.processed_text / the text strategy.apply returned
    original_text,    \* report.original_text / the text detect first ran on
    pc,               \* position of the running operation
    text,             \* request.text / the text argument
    use_llm,          \* request.use_llm
    threshold,        \* request.llm_threshold / the threshold argument
    api_key,          \* LLMValidator.api_key: "none" or "set"
    client_ok,        \* whether Anthropic(...) can be constructed
    det_idx,          \* index of the next detector of TextProcessor.detectors
    all_matches,      \* process(): all_matches, the concatenated detector outputs
    report_matches,   \* report.matches
    results,          \* validate_low_confidence(): results
    batches,          \* validate_low_confidence(): batches
    batch_idx,        \* number of batches already validated
    api_calls,        \* the candidates listed in each prompt sent to messages.create
    last_response,    \* what the last messages.create call did
    final_matches,    \* detect_pii(): final_matches
    llm_rejected,     \* detect_pii(): llm_rejected_indices
    llm_validated,    \* detect_pii(): llm_validated_indices
    summary,          \* DetectResponse.summary
    _llm_validators,  \* api/routes.py: the validators cache, model name -> validator
    calls             \* the get_llm_validator calls under way, in the order they began

vars == <<op, strategy, args, processed_text, original_text, pc, text, use_llm, threshold, api_key, client_ok, det_idx,
          all_matches, report_matches, results, batches, batch_idx,
          api_calls, last_response, final_matches, llm_rejected,
          llm_validated, summary, _llm_validators, calls>>

(***************************************************************************)
(* Bounds of the model and constants of the program.                        *)
(***************************************************************************)
\* Most matches in the list one detector reports when the processor runs on its own.
MaxPerDetector == 1
\* Longest span a detector reports on a short text.
MaxSpanLen == 2
\* Most entries in a JSON array returned by the LLM.
MaxEntries == 2
\* Sentences of the long text beyond one full batch.
ExtraSentences == 1
\* llm_validator.py: BATCH_SIZE
BATCH_SIZE == 10
\* routes.py: REVIEW_CONFIDENCE_THRESHOLD, and the default threshold of validate_low_confidence
REVIEW_CONFIDENCE_THRESHOLD == 90

\* Two of the detectors of the processor, in their configured order (a rule-based one and
\* the NER one, both of which grade their matches), and the kind each reports.
DETECTORS == << <<"phone">>, <<"presidio">> >>
DetectorType(d) == IF d = <<"phone">> THEN "PHONE" ELSE "NAME"

\* Confidences a detector may give, and thresholds a caller may ask for.
Confidences == {70, REVIEW_CONFIDENCE_THRESHOLD}
Thresholds == {70, REVIEW_CONFIDENCE_THRESHOLD}

Min(a, b) == IF a < b THEN a ELSE b

(***************************************************************************)
(* Texts.                                                                   *)
(***************************************************************************)
sentence_enders == {".", "!", "?", "\n"}
Whitespace == {" ", "\n"}
Letters == {"a", "A", "b", "c", "d", "e", "f", "g", "h", "i", "j", "k", "l", "m"}

\* str.lower() on one character and on a text.
LowerChar(c) == IF c = "A" THEN "a" ELSE c
Lower(s) == [i \in 1..Len(s) |-> LowerChar(s[i])]

\* text[start:end] for 0 <= start <= end <= len(text).
Slice(t, start, end) == SubSeq(t, start + 1, end)

\* str.strip()
RECURSIVE LStrip(_)
LStrip(s) == IF s # <<>> /\ Head(s) \in Whitespace THEN LStrip(Tail(s)) ELSE s
RECURSIVE RStrip(_)
RStrip(s) ==
    IF s # <<>> /\ s[Len(s)] \in Whitespace THEN RStrip(SubSeq(s, 1, Len(s) - 1)) ELSE s
Strip(s) == RStrip(LStrip(s))

\* The short texts of the model: two sentences whose candidates differ only in case.
ShortTexts == { <<"a", ".", "A">>, <<"a", " ", "a">> }
\* The long text: BATCH_SIZE + ExtraSentences one-letter sentences, "b.c.d. ...".
LongLetters == <<"b", "c", "d", "e", "f", "g", "h", "i", "j", "k", "l", "m">>
LongText ==
    [i \in 1..(2 * Min(BATCH_SIZE + ExtraSentences, Len(LongLetters))) |->
        IF i % 2 = 1 THEN LongLetters[(i + 1) \div 2] ELSE "."]
Texts == ShortTexts \cup {LongText}

(***************************************************************************)
(* core/models.py: PIIMatch                                                 *)
(***************************************************************************)
\* A variant of __post_init__ that accepts any confidence.
PIIMatchRaisesOnSpanOnly(start, end, confidence) == start < 0 \/ end < start

\* PIIMatch.__post_init__: the conditions under which construction raises ValueError.
PIIMatchRaises(start, end, confidence) ==
    \/ start < 0
    \/ end < start
    \/ ~(0 <= confidence /\ confidence <= 100)

\* PIIMatch(type, text, start, end, confidence, detector), once validation has passed.
PIIMatch(type, txt, start, end, confidence, detector) ==
    [type |-> type, text |-> txt, start |-> start, end |-> end,
     confidence |-> confidence, detector |-> detector]

(***************************************************************************)
(* Detectors: detect(text) returns a list of matches whose spans are        *)
(* substrings of the text.  A candidate is a span of at most MaxSpanLen      *)
(* characters that neither starts nor ends with whitespace; a sweep reports *)
(* every letter of the text in ascending order with one confidence.         *)
(***************************************************************************)
Spans(t) ==
    {sp \in (0..Len(t)) \X (0..Len(t)) :
        /\ sp[1] < sp[2]
        /\ sp[2] - sp[1] <= MaxSpanLen
        /\ t[sp[1] + 1] \notin Whitespace
        /\ t[sp[2]] \notin Whitespace}

Candidates(d, t) ==
    {PIIMatch(DetectorType(d), Slice(t, sp[1], sp[2]), sp[1], sp[2], c, d) :
        sp \in Spans(t), c \in Confidences}

RECURSIVE SeqsUpTo(_, _)
SeqsUpTo(S, n) ==
    IF n = 0 THEN {<<>>}
    ELSE LET shorter == SeqsUpTo(S, n - 1)
         IN  shorter \cup {Append(s, x) : s \in {q \in shorter : Len(q) = n - 1}, x \in S}

RECURSIVE LetterPositions(_, _)
LetterPositions(t, i) ==
    IF i > Len(t) THEN <<>>
    ELSE IF t[i] \in Letters THEN <<i - 1>> \o LetterPositions(t, i + 1)
    ELSE LetterPositions(t, i + 1)

Sweep(d, t, c) ==
    LET ps == LetterPositions(t, 1)
    IN  [i \in 1..Len(ps) |->
            PIIMatch(DetectorType(d), Slice(t, ps[i], ps[i] + 1), ps[i], ps[i] + 1, c, d)]

\* What detect(text) may return.  When the processor is run on its own (op "process") a
\* detector reports any list of at most MaxPerDetector candidates of a short text, or a
\* sweep.  In the operations that go on to the LLM the rule-based detector reports nothing
\* or a sweep and the NER detector nothing, a sweep or any one candidate.  The long text
\* holds nothing the rule-based detector reports: only the NER detector sweeps it.
DetectorOutputs(d, t, o) ==
    LET sweeps == {Sweep(d, t, c) : c \in Confidences}
    IN  IF t \in ShortTexts
        THEN IF o = "process" THEN sweeps \cup SeqsUpTo(Candidates(d, t), MaxPerDetector)
             ELSE IF d = <<"presidio">>
             THEN sweeps \cup {<<>>} \cup {<<m>> : m \in Candidates(d, t)}
             ELSE sweeps \cup {<<>>}
        ELSE IF d = <<"presidio">> THEN sweeps \cup {<<>>}
        ELSE {<<>>}

(***************************************************************************)
(* pipeline/processor.py: TextProcessor                                     *)
(***************************************************************************)
\* A variant that takes any stored match whose span intersects (start, end) for the key.
KeyIndexOverlapping(by_position, start, end) ==
    LET hits == {i \in 1..Len(by_position) :
                    by_position[i].start < end /\ start < by_position[i].end}
    IN  IF hits = {} THEN 0 ELSE CHOOSE i \in hits : TRUE

\* The position of key (start, end) in the insertion-ordered dict by_position, 0 if absent.
KeyIndex(by_position, start, end) ==
    LET hits == {i \in 1..Len(by_position) :
                    by_position[i].start = start /\ by_position[i].end = end}
    IN  IF hits = {} THEN 0 ELSE CHOOSE i \in hits : TRUE

\* A variant that replaces the stored match on an equal confidence too: the last seen wins.
DedupKeepsNewOnTie(old, new) == new.confidence >= old.confidence

\* One iteration of the loop of _deduplicate_matches: a new key is appended, an
\* existing key keeps its place and takes the match only if it is strictly more confident.
DedupKeepsNew(old, new) == new.confidence > old.confidence

DedupStep(by_position, match) ==
    LET i == KeyIndex(by_position, match.start, match.end)
    IN  IF i = 0 THEN Append(by_position, match)
        ELSE IF DedupKeepsNew(by_position[i], match)
             THEN [by_position EXCEPT ![i] = match]
             ELSE by_position

RECURSIVE DedupLoop(_, _)
DedupLoop(by_position, matches) ==
    IF matches = <<>> THEN by_position
    ELSE DedupLoop(DedupStep(by_position, Head(matches)), Tail(matches))

\* A variant that returns by_position.values() in insertion order, without sorting.
InsertionOrder(ms) == ms

\* sorted(values, key=lambda m: m.start): a stable sort on start alone; the element at
\* index i lands after every element of smaller start and every earlier one of equal start.
SortedByStart(ms) ==
    LET rank(i) == Cardinality({j \in 1..Len(ms) :
                        ms[j].start < ms[i].start \/ (ms[j].start = ms[i].start /\ j <= i)})
    IN  [k \in 1..Len(ms) |-> ms[CHOOSE i \in 1..Len(ms) : rank(i) = k]]

_deduplicate_matches(matches) ==
    IF matches = <<>> THEN <<>> ELSE SortedByStart(DedupLoop(<<>>, matches))

(***************************************************************************)
(* strategies/redaction.py, masking.py, hashing.py                          *)
(* A strategy is a record of its kind and its configuration.  The           *)
(* placeholder format of a redaction strategy is the text before and after  *)
(* {type}; the characters of a placeholder are "[", the type name, "]".     *)
(***************************************************************************)
\* hashing.py: the default length of HashingStrategy, and the length of a SHA-256 hexdigest
DefaultHashLength == 16
DigestLen == 64
\* masking.py: self.mask_char * 3
MaskRun == 3

StrategyRecord(kind, before, after, mask_char, visible_chars, salt, length) ==
    [kind |-> kind, before |-> before, after |-> after, mask_char |-> mask_char,
     visible_chars |-> visible_chars, salt |-> salt, length |-> length]

NoStrategy == StrategyRecord("none", <<>>, <<>>, "*", 0, <<>>, 0)
RedactionStrategy(before, after) == StrategyRecord("redaction", before, after, "*", 0, <<>>, 0)
MaskingStrategy(mask_char, visible_chars) ==
    StrategyRecord("masking", <<>>, <<>>, mask_char, visible_chars, <<>>, 0)
HashingStrategy(salt, length) == StrategyRecord("hashing", <<>>, <<>>, "*", 0, salt, length)

\* The configurations of the model: the default redaction format, three maskings (one
\* of them with no visible characters), and hashing with the default and with a salted,
\* short token.
Strategies ==
    { RedactionStrategy(<<"[">>, <<"]">>),
      MaskingStrategy("*", 0),
      MaskingStrategy("*", 1),
      MaskingStrategy("#", 2),
      HashingStrategy(<<>>, DefaultHashLength),
      HashingStrategy(<<"s">>, 2) }

\* Python slices with their clamping: t[:n] and t[n:] for n >= 0.
Upto(t, n) == SubSeq(t, 1, Min(n, Len(t)))
From(t, n) == SubSeq(t, Min(n, Len(t)) + 1, Len(t))

\* c * n
Repeat(c, n) == [i \in 1..n |-> c]

\* A variant of _mask that masks a value entirely only when it is shorter than 2k.
_mask_short_only(st, value) ==
    IF Len(value) < st.visible_chars * 2
    THEN Repeat(st.mask_char, Len(value))
    ELSE Upto(value, st.visible_chars)
         \o Repeat(st.mask_char, MaskRun)
         \o (IF st.visible_chars = 0 THEN value
             ELSE From(value, Len(value) - Min(st.visible_chars, Len(value))))

\* MaskingStrategy._mask; value[-k:] is the last k characters, and the whole value when
\* k is 0.
_mask(st, value) ==
    IF Len(value) <= st.visible_chars * 2
    THEN Repeat(st.mask_char, Len(value))
    ELSE Upto(value, st.visible_chars)
         \o Repeat(st.mask_char, MaskRun)
         \o (IF st.visible_chars = 0 THEN value
             ELSE From(value, Len(value) - Min(st.visible_chars, Len(value))))

\* SHA-256 is modelled as an injective code of its input followed by the digits of that
\* code in base 16: the hexdigest has DigestLen digits, the low digits first.
HashChars == <<"a", "A", "b", "c", "d", "e", "f", "g", "h", "i", "j", "k", "l", "m",
               "s", ".", " ", "\n">>
CharCode(c) == CHOOSE i \in 1..Len(HashChars) : HashChars[i] = c
RECURSIVE Encode(_)
Encode(input) ==
    IF input = <<>> THEN 0
    ELSE CharCode(Head(input)) + (Len(HashChars) + 1) * Encode(Tail(input))
HexDigits == <<"0", "1", "2", "3", "4", "5", "6", "7", "8", "9",
               "a", "b", "c", "d", "e", "f">>
RECURSIVE Shift(_, _)
Shift(n, i) == IF i = 0 \/ n = 0 THEN n ELSE Shift(n \div Len(HexDigits), i - 1)
hexdigest(input) ==
    [i \in 1..DigestLen |-> HexDigits[(Shift(Encode(input), i - 1) % Len(HexDigits)) + 1]]

\* A variant whose input depends on the kind of the match as well: it appends a
\* character for a NAME.
HashInputWithType(st, match) ==
    st.salt \o match.text \o (IF match.type = "NAME" THEN <<"s">> ELSE <<>>)

\* hash_input = self.salt + match.text
HashInput(st, match) == st.salt \o match.text

\* match.type.value, character by character.
TypeValue(type) ==
    CASE type = "PHONE" -> <<"P", "H", "O", "N", "E">>
      [] type = "NAME" -> <<"N", "A", "M", "E">>
      [] type = "IBAN" -> <<"I", "B", "A", "N">>
      [] type = "GERMAN_ID" -> <<"G", "E", "R", "M", "A", "N", "_", "I", "D">>
      [] OTHER -> <<"C", "R", "E", "D", "I", "T", "_", "C", "A", "R", "D">>

\* The text a strategy puts in the place of a match; the placeholder of a redaction is
\* placeholder_format with {type} replaced by the value of the type.
Replacement(st, match) ==
    CASE st.kind = "redaction" -> st.before \o TypeValue(match.type) \o st.after
      [] st.kind = "masking" -> _mask(st, match.text)
      [] OTHER -> Upto(hexdigest(HashInput(st, match)), st.length)

\* A variant that rewrites from the lowest start upwards.
SortedAscending(ms) ==
    LET rank(i) == Cardinality({j \in 1..Len(ms) :
                        ms[j].start < ms[i].start \/ (ms[j].start = ms[i].start /\ j <= i)})
    IN  [k \in 1..Len(ms) |-> ms[CHOOSE i \in 1..Len(ms) : rank(i) = k]]

\* sorted(matches, key=lambda m: m.start, reverse=True): descending start, matches of
\* equal start in their original order.
SortedDescending(ms) ==
    LET rank(i) == Cardinality({j \in 1..Len(ms) :
                        ms[j].start > ms[i].start \/ (ms[j].start = ms[i].start /\ j <= i)})
    IN  [k \in 1..Len(ms) |-> ms[CHOOSE i \in 1..Len(ms) : rank(i) = k]]

\* The loop of apply: result = result[:match.start] + replacement + result[match.end:]
RECURSIVE Rewrite(_, _, _)
Rewrite(st, result, sorted_matches) ==
    IF sorted_matches = <<>> THEN result
    ELSE LET match == Head(sorted_matches)
         IN  Rewrite(st,
                     Upto(result, match.start) \o Replacement(st, match)
                         \o From(result, match.end),
                     Tail(sorted_matches))

\* A variant that answers an empty match list with an empty text.
ApplyNothingLeft(st, t, matches) ==
    IF matches = <<>> THEN <<>> ELSE Rewrite(st, t, SortedDescending(matches))

\* Strategy.apply(text, matches); RedactionStrategy returns at once when matches is empty.
Apply(st, t, matches) ==
    IF st.kind = "redaction" /\ matches = <<>> THEN t
    ELSE Rewrite(st, t, SortedDescending(matches))

\* A variant of the processor that redacts when it was given no strategy.
ProcessedTextDefaultsToRedaction(st, t, unique_matches) ==
    IF unique_matches = <<>> THEN t
    ELSE Apply(IF st.kind = "none" THEN RedactionStrategy(<<"[">>, <<"]">>) ELSE st,
               t, unique_matches)

\* process(): processed_text
ProcessedText(st, t, unique_matches) ==
    IF st.kind # "none" /\ unique_matches # <<>> THEN Apply(st, t, unique_matches) ELSE t

(***************************************************************************)
(* detectors/llm_validator.py: ValidationResult and the reasons             *)
(***************************************************************************)
ValidationResult(is_pii, confidence, reason) ==
    [is_pii |-> is_pii, confidence |-> confidence, reason |-> reason]

HighConfidenceReason == <<"High confidence - auto-approved">>
UnavailableReason == <<"LLM validation unavailable">>
NotInResponseReason == <<"Match not in LLM response">>
ParseFailedReason == <<"Failed to parse LLM response">>
NoReasonProvided == <<"No reason provided">>
\* f"LLM error: {e}"
LLMErrorReason(e) == <<"LLM error: ", e>>

\* The pair (match, validation) of a result list.
Pair(m, v) == [match |-> m, validation |-> v]

\* The results given when nothing usable came back: the match kept as PII at its own confidence.
Fallback(matches, reason) ==
    [i \in 1..Len(matches) |->
        Pair(matches[i], ValidationResult(TRUE, matches[i].confidence, reason))]

(***************************************************************************)
(* What messages.create can do, and the JSON the response text can hold.    *)
(*   raise                      the call raises (network, timeout, rate)    *)
(*   text, wrap, json           the call returns a text: the JSON value     *)
(*                              alone ("bare"), inside ``` fences            *)
(*                              ("fenced"), or after a sentence of prose    *)
(*                              without fences ("prose")                    *)
(* A JSON value is "notjson" (not JSON at all), "number", "object" (a       *)
(* non-empty object) or "array" with its items.  An item is a "number" or a *)
(* "dict" with the fields text, is_pii, confidence, reason, each possibly   *)
(* missing or of the wrong type.                                            *)
(***************************************************************************)
JMissing == [t |-> "missing", s |-> <<>>, n |-> 0]
JStr(s) == [t |-> "str", s |-> s, n |-> 0]
JNum(n) == [t |-> "number", s |-> <<>>, n |-> n]
JNull == [t |-> "null", s |-> <<>>, n |-> 0]

JDict(txt, is_pii, confidence, reason) ==
    [t |-> "dict", text |-> txt, is_pii |-> is_pii, confidence |-> confidence,
     reason |-> reason]
JNumberItem == [t |-> "number", text |-> JMissing, is_pii |-> JMissing,
                confidence |-> JMissing, reason |-> JMissing]

JArray(items) == [t |-> "array", items |-> items]
JOther(t) == [t |-> t, items |-> <<>>]

RaisedResponse(e) == [kind |-> "raise", error |-> e, wrap |-> "bare", json |-> JOther("notjson")]
TextResponse(wrap, json) == [kind |-> "text", error |-> "", wrap |-> wrap, json |-> json]
NoResponse == [kind |-> "none", error |-> "", wrap |-> "bare", json |-> JOther("notjson")]

\* bool(x) of a JSON value.
Truthy(j) ==
    CASE j.t = "true" -> TRUE
      [] j.t = "false" -> FALSE
      [] j.t = "null" -> FALSE
      [] j.t = "number" -> j.n # 0
      [] j.t = "str" -> j.s # <<>>
      [] OTHER -> FALSE
JTrue == [t |-> "true", s |-> <<>>, n |-> 0]
JFalse == [t |-> "false", s |-> <<>>, n |-> 0]

\* A dict is falsy only when it is empty.
DictIsEmpty(r) ==
    /\ r.text.t = "missing" /\ r.is_pii.t = "missing"
    /\ r.confidence.t = "missing" /\ r.reason.t = "missing"

(***************************************************************************)
(* _extract_sentence, _group_by_sentence and the batches                    *)
(***************************************************************************)
\* while start > 0 and text[start - 1] not in sentence_enders: start -= 1
RECURSIVE SentenceStart(_, _)
SentenceStart(t, start) ==
    IF start > 0 /\ t[start] \notin sentence_enders THEN SentenceStart(t, start - 1) ELSE start

\* while end < len(text) and text[end] not in sentence_enders: end += 1
RECURSIVE SentenceEndScan(_, _)
SentenceEndScan(t, end) ==
    IF end < Len(t) /\ t[end + 1] \notin sentence_enders THEN SentenceEndScan(t, end + 1) ELSE end

SentenceEnd(t, end) ==
    LET e == SentenceEndScan(t, end) IN IF e < Len(t) THEN e + 1 ELSE e

\* (sentence_text, sentence_start_offset)
_extract_sentence(t, match) ==
    LET start == SentenceStart(t, match.start)
        end == SentenceEnd(t, match.end)
    IN  <<Strip(Slice(t, start, end)), start>>

\* groups is an insertion-ordered dict keyed by the sentence text.
GroupIndex(groups, sentence) ==
    LET hits == {i \in 1..Len(groups) : groups[i].sentence = sentence}
    IN  IF hits = {} THEN 0 ELSE CHOOSE i \in hits : TRUE

\* A variant that restarts the list of a sentence already seen instead of appending to it.
GroupStepOverwrites(groups, t, match) ==
    LET ex == _extract_sentence(t, match)
        i == GroupIndex(groups, ex[1])
    IN  IF i = 0
        THEN Append(groups, [sentence |-> ex[1], start |-> ex[2], matches |-> <<match>>])
        ELSE [groups EXCEPT ![i].matches = <<match>>]

GroupStep(groups, t, match) ==
    LET ex == _extract_sentence(t, match)
        i == GroupIndex(groups, ex[1])
    IN  IF i = 0
        THEN Append(groups, [sentence |-> ex[1], start |-> ex[2], matches |-> <<match>>])
        ELSE [groups EXCEPT ![i].matches = Append(@, match)]

RECURSIVE GroupLoop(_, _, _)
GroupLoop(groups, t, matches) ==
    IF matches = <<>> THEN groups
    ELSE GroupLoop(GroupStep(groups, t, Head(matches)), t, Tail(matches))

_group_by_sentence(t, matches) == GroupLoop(<<>>, t, matches)

\* [sentence_groups[i : i + BATCH_SIZE] for i in range(0, len(sentence_groups), BATCH_SIZE)]
\* A variant that makes full batches only.
BatchCountFloor(n) == n \div BATCH_SIZE
\* The number of slices the comprehension makes of a list of n groups.
BatchCount(n) == (n + BATCH_SIZE - 1) \div BATCH_SIZE
MakeBatches(sentence_groups) ==
    [b \in 1..BatchCount(Len(sentence_groups)) |->
        SubSeq(sentence_groups, (b - 1) * BATCH_SIZE + 1,
               Min(b * BATCH_SIZE, Len(sentence_groups)))]

\* all_matches of _validate_batch: the matches of the batch's groups, in order.
RECURSIVE BatchMatches(_)
BatchMatches(batch) ==
    IF batch = <<>> THEN <<>> ELSE Head(batch).matches \o BatchMatches(Tail(batch))

\* A variant that sends a match whose confidence equals the threshold to neither list.
HighConfStrict(matches, th) ==
    LET T(m) == m.confidence > th
    IN  SelectSeq(matches, T)

\* high_conf and low_conf
HighConf(matches, th) ==
    LET T(m) == m.confidence >= th
    IN  SelectSeq(matches, T)
LowConf(matches, th) ==
    LET T(m) == m.confidence < th
    IN  SelectSeq(matches, T)

(***************************************************************************)
(* _parse_batch_response                                                    *)
(***************************************************************************)
\* json.loads of the response text, after the code-fence handling: the first '[' to
\* the last ']' is cut out only when the text contains ```; without fences the whole
\* text is handed to json.loads, which rejects a value surrounded by prose.
JsonLoads(response) ==
    CASE response.wrap = "bare" -> response.json
      [] response.wrap = "fenced" ->
            IF response.json.t = "array" THEN response.json ELSE JOther("notjson")
      [] OTHER -> JOther("notjson")

\* r.get("text", "").lower(): "ok" with the lowered text, or AttributeError when the
\* item is no dict or its text is no string.
EntryTextLower(r) ==
    IF r.t # "dict" THEN [ok |-> FALSE, s |-> <<>>]
    ELSE IF r.text.t = "missing" THEN [ok |-> TRUE, s |-> <<>>]
    ELSE IF r.text.t = "str" THEN [ok |-> TRUE, s |-> Lower(r.text.s)]
    ELSE [ok |-> FALSE, s |-> <<>>]

\* Whether the generator accepts item r for a candidate whose lowered text is mtl.
EntryMatches(r, mtl, matched_texts) ==
    /\ EntryTextLower(r).s = mtl
    /\ EntryTextLower(r).s \notin matched_texts

\* next(r for r in results_data if ...): the index of the first accepted item from i on,
\* 0 when there is none, -1 when an item examined on the way raises AttributeError.
RECURSIVE FindEntry(_, _, _, _)
FindEntry(items, i, mtl, matched_texts) ==
    IF i > Len(items) THEN 0
    ELSE IF ~EntryTextLower(items[i]).ok THEN -1
    ELSE IF EntryMatches(items[i], mtl, matched_texts) THEN i
    ELSE FindEntry(items, i + 1, mtl, matched_texts)

\* float(result_data.get("confidence", match.confidence)); the strings of the model are
\* not numerals.
FloatOf(j, default) ==
    CASE j.t = "missing" -> [exc |-> "none", n |-> default]
      [] j.t = "number" -> [exc |-> "none", n |-> j.n]
      [] j.t = "str" -> [exc |-> "ValueError", n |-> 0]
      [] OTHER -> [exc |-> "TypeError", n |-> 0]

\* str(result_data.get("reason", "No reason provided"))
ReasonOf(j) ==
    IF j.t = "missing" THEN NoReasonProvided
    ELSE IF j.t = "str" THEN j.s
    ELSE <<"str(", j.t, ")">>

\* A variant in which an entry without an is_pii field does not count as PII.
IsPiiOfDefaultFalse(j) == IF j.t = "missing" THEN FALSE ELSE Truthy(j)

\* bool(result_data.get("is_pii", True))
IsPiiOf(j) == IF j.t = "missing" THEN TRUE ELSE Truthy(j)

\* A variant that lets a match the response has no entry for go as not PII.
NotInResponseRejects(match) ==
    Pair(match, ValidationResult(FALSE, match.confidence, NotInResponseReason))

\* The result of a match the response has no entry for.
NotInResponse(match) ==
    Pair(match, ValidationResult(TRUE, match.confidence, NotInResponseReason))

\* The loop over the matches: exc is "none" and results holds one pair per match, or
\* exc names the exception that left the loop.
RECURSIVE ParseLoop(_, _, _, _)
ParseLoop(matches, items, matched_texts, acc) ==
    IF matches = <<>> THEN [exc |-> "none", results |-> acc]
    ELSE
        LET match == Head(matches)
            mtl == Lower(match.text)
            i == FindEntry(items, 1, mtl, matched_texts)
        IN  IF i = -1 THEN [exc |-> "AttributeError", results |-> <<>>]
            ELSE IF i = 0 \/ DictIsEmpty(items[i])
            THEN ParseLoop(Tail(matches), items, matched_texts,
                    Append(acc, NotInResponse(match)))
            ELSE
                LET r == items[i]
                    f == FloatOf(r.confidence, match.confidence)
                IN  IF f.exc # "none" THEN [exc |-> f.exc, results |-> <<>>]
                    ELSE ParseLoop(Tail(matches), items,
                            matched_texts \cup {EntryTextLower(r).s},
                            Append(acc, Pair(match,
                                ValidationResult(IsPiiOf(r.is_pii), f.n, ReasonOf(r.reason)))))

\* The try block of _parse_batch_response: the exception it ends with, or "none".
ParseTry(response, matches) ==
    LET data == JsonLoads(response)
    IN  CASE data.t = "notjson" -> [exc |-> "JSONDecodeError", results |-> <<>>]
          [] data.t = "number" -> [exc |-> "TypeError", results |-> <<>>]
          [] data.t = "object" -> [exc |-> "AttributeError", results |-> <<>>]
          [] OTHER -> ParseLoop(matches, data.items, {}, <<>>)

\* except (json.JSONDecodeError, KeyError, TypeError)
ParseCaught == {"JSONDecodeError", "KeyError", "TypeError"}

\* _parse_batch_response: exc is "none" with the results, or the exception it lets out.
_parse_batch_response(response, matches) ==
    LET tried == ParseTry(response, matches)
    IN  IF tried.exc \in ParseCaught
        THEN [exc |-> "none", results |-> Fallback(matches, ParseFailedReason)]
        ELSE tried

(***************************************************************************)
(* _validate_batch                                                          *)
(***************************************************************************)
\* What except Exception catches of the API call and of the parsing.
BatchCaught(exc) == exc # "none"

_validate_batch(batch, response) ==
    LET ms == BatchMatches(batch)
    IN  IF response.kind = "raise" THEN Fallback(ms, LLMErrorReason(response.error))
        ELSE LET parsed == _parse_batch_response(response, ms)
             IN  IF BatchCaught(parsed.exc)
                 THEN Fallback(ms, LLMErrorReason(parsed.exc))
                 ELSE parsed.results

(***************************************************************************)
(* LLMValidator.__init__ and the cache of api/routes.py.  A validator is    *)
(* the model id it was configured with and the identity of the instance:   *)
(* the number of the call that created it.                                  *)
(***************************************************************************)
CLAUDE_MODELS ==
    [haiku |-> "claude-haiku-4-5-20250929",
     sonnet |-> "claude-sonnet-4-5-20250929",
     opus |-> "claude-opus-4-5-20251101"]

\* ClaudeModelName, the names a request may carry, and the default of the request.
ClaudeModelName == {"haiku", "sonnet", "opus"}
DefaultModel == "haiku"

\* A variant of the constructor that configures every validator for haiku.
LLMValidatorAlwaysHaiku(model, id) == [id |-> id, model |-> CLAUDE_MODELS["haiku"]]

\* LLMValidator(model=model): self.model = CLAUDE_MODELS.get(model, CLAUDE_MODELS["haiku"])
LLMValidator(model, id) ==
    [id |-> id,
     model |-> IF model \in DOMAIN CLAUDE_MODELS THEN CLAUDE_MODELS[model]
               ELSE CLAUDE_MODELS["haiku"]]

\* No validator: a local that is not yet bound.
NoValidator == [id |-> 0, model |-> ""]

\* _llm_validators = {} and _llm_validators[model] = validator
EmptyCache == [k \in {} |-> NoValidator]
Put(cache, model, validator) ==
    [k \in DOMAIN cache \cup {model} |-> IF k = model THEN validator ELSE cache[k]]

\* The cache after a call of get_llm_validator(model) that runs without interruption;
\* id is the identity of the validator it creates when the cache has none.
get_llm_validator(cache, model, id) ==
    IF model \notin DOMAIN cache THEN Put(cache, model, LLMValidator(model, id)) ELSE cache

\* LLMValidator.client and is_available
ClientCreated == client_ok
is_available == ClientCreated /\ api_key # "none"

\* A variant of detect_pii that validates whenever the request asks for it.
UsesValidatorWhenAsked == use_llm

\* detect_pii: if request.use_llm: ... if validator.is_available:
UsesValidator == use_llm /\ is_available

\* The auto-approval of the high-confidence matches.
AutoApproved(matches, th) ==
    LET high == HighConf(matches, th)
    IN  [i \in 1..Len(high) |->
            Pair(high[i], ValidationResult(TRUE, high[i].confidence, HighConfidenceReason))]

\* A variant that lets the low-confidence matches go as not PII when the LLM is unavailable.
UnavailableRejects(low) ==
    [i \in 1..Len(low) |->
        Pair(low[i], ValidationResult(FALSE, low[i].confidence, UnavailableReason))]

\* The results of the low-confidence matches when the LLM is unavailable.
Unavailable(low) ==
    [i \in 1..Len(low) |->
        Pair(low[i], ValidationResult(TRUE, low[i].confidence, UnavailableReason))]

(***************************************************************************)
(* The responses the LLM backend may give to the prompt of one batch.  The   *)
(* items of an array name the text of the first or of the last candidate of *)
(* the prompt (in the other letter case, to exercise the case-insensitive    *)
(* comparison), an unrelated text, a text that is no string, or no text.     *)
(***************************************************************************)
SwapChar(c) == IF c = "a" THEN "A" ELSE IF c = "A" THEN "a" ELSE c
SwapCase(s) == [i \in 1..Len(s) |-> SwapChar(s[i])]

VerdictsFor(txt) ==
    { JDict(JStr(txt), JTrue, JNum(95), JStr(<<"Personal name">>)),
      JDict(JStr(txt), JFalse, JNum(10), JStr(<<"Company name">>)),
      JDict(JStr(txt), JMissing, JMissing, JMissing),
      JDict(JStr(txt), JTrue, JNum(150), JStr(<<"Personal name">>)),
      JDict(JStr(txt), JTrue, JStr(<<"high">>), JStr(<<"Personal name">>)),
      JDict(JStr(txt), JTrue, JNull, JStr(<<"Personal name">>)) }

PlainVerdictsFor(txt) ==
    { JDict(JStr(txt), JTrue, JNum(95), JStr(<<"Personal name">>)),
      JDict(JStr(txt), JFalse, JNum(10), JStr(<<"Company name">>)) }

OddItems ==
    { JNumberItem,
      JDict(JNum(7), JFalse, JMissing, JMissing),
      JDict(JStr(<<"z">>), JFalse, JNum(10), JStr(<<"Company name">>)) }

Items(cands) ==
    OddItems
    \cup VerdictsFor(SwapCase(cands[1].text))
    \cup (IF cands[Len(cands)].text = cands[1].text THEN {}
          ELSE PlainVerdictsFor(SwapCase(cands[Len(cands)].text)))

\* The exceptions messages.create raises in the model.
APIErrors == {"timeout", "rate limit"}

Responses(cands) ==
    {RaisedResponse(e) : e \in APIErrors}
    \cup {TextResponse("bare", JOther(t)) : t \in {"notjson", "number", "object"}}
    \cup {TextResponse("bare", JArray(a)) : a \in SeqsUpTo(Items(cands), MaxEntries)}
    \cup {TextResponse(w, JArray(<<v>>)) :
            w \in {"fenced", "prose"}, v \in PlainVerdictsFor(SwapCase(cands[1].text))}
    \cup {TextResponse("fenced", JOther("notjson"))}

(***************************************************************************)
(* api/routes.py: detect_pii after the validation                           *)
(***************************************************************************)
\* Parts of a reason that contain "auto-approved" once lowered.
AutoApprovedParts == {"High confidence - auto-approved"}
\* "auto-approved" not in validation.reason.lower()
was_llm_validated(reason) == ~(\E i \in 1..Len(reason) : reason[i] \in AutoApprovedParts)

\* Whether building the match of result p raises in PIIMatch.__post_init__.
RescoreRaises(p) ==
    /\ p.validation.is_pii
    /\ PIIMatchRaises(p.match.start, p.match.end, p.validation.confidence)

\* A variant that leaves the detector name of a rejected match as it was.
RejectedDetectorUnmarked(detector) == detector

\* The detector name given to a match the LLM rejected.
RejectedDetector(detector) == detector \o <<"+llm">>

\* updated_match / rejected_match
Rescored(p) ==
    LET m == p.match
    IN  IF p.validation.is_pii
        THEN PIIMatch(m.type, m.text, m.start, m.end, p.validation.confidence,
                IF was_llm_validated(p.validation.reason)
                THEN m.detector \o <<"+llm">> ELSE m.detector)
        ELSE PIIMatch(m.type, m.text, m.start, m.end, 0, RejectedDetector(m.detector))

\* llm_rejected_indices, 0-based as in the code.
RejectedIndices(res) == {i - 1 : i \in {j \in 1..Len(res) : ~res[j].validation.is_pii}}
\* llm_validated_indices
ValidatedIndices(res) ==
    {i - 1 : i \in {j \in 1..Len(res) :
        ~res[j].validation.is_pii \/ was_llm_validated(res[j].validation.reason)}}

\* A variant that counts every match, rejected or not.
CountedAlways(i, rejected) == TRUE

\* Whether the summary loop counts the match at 0-based index i.
Counted(i, rejected) == i \notin rejected

\* The summary rebuilt from final_matches and llm_rejected_indices.
BuildSummary(final, rejected) ==
    LET kept == {i \in 1..Len(final) : Counted(i - 1, rejected)}
        types == {final[i].type : i \in kept}
    IN  [pii_found |-> Cardinality(kept) > 0,
         total_count |-> Cardinality(kept),
         by_type |-> [ty \in types |-> Cardinality({i \in kept : final[i].type = ty})]]

NoSummary == [pii_found |-> FALSE, total_count |-> 0, by_type |-> [ty \in {} |-> 0]]

(***************************************************************************)
(* The state machine.                                                       *)
(*   op = "process":  TextProcessor(DETECTORS, strategy=None).process(text) *)
(*   op = "detect":   POST /detect, detect_pii(request)                     *)
(*   op = "validate": a caller builds a match list (all_matches) and calls  *)
(*                    validate_low_confidence(text, all_matches, threshold) *)
(*   op = "apply":    a caller builds a match list (all_matches) over the    *)
(*                    text, as anonymize_text does, and calls                *)
(*                    strategy.apply(text, all_matches)                      *)
(*   op = "construct": PIIMatch(..., start, end, confidence, ...)            *)
(*   op = "card":     CreditCardDetector().detect(text) on a digit string,   *)
(*                    then again after one digit of a detected number was    *)
(*                    changed                                                *)
(*                                                                         *)
(* detect_pii passes threshold=request.llm_threshold (routes.py, line 160). *)
(* The DetectRequest class of api/models.py declares text, use_llm and      *)
(* llm_model only, so with that class the read itself fails; the request of *)
(* the model carries the threshold, as the route reads it and as the client *)
(* in demo/app.py sends it, so that the steps after the read are covered.   *)
(***************************************************************************)
\* The variables an operation has not touched yet.
NoArgs == [start |-> 0, end |-> 0, confidence |-> 0]
Untouched ==
    /\ processed_text = <<>>
    /\ original_text = <<>>
    /\ det_idx = 1
    /\ all_matches = <<>>
    /\ report_matches = <<>>
    /\ results = <<>>
    /\ batches = <<>>
    /\ batch_idx = 0
    /\ api_calls = <<>>
    /\ last_response = NoResponse
    /\ final_matches = <<>>
    /\ llm_rejected = {}
    /\ llm_validated = {}
    /\ summary = NoSummary
    /\ _llm_validators = EmptyCache
    /\ calls = <<>>

\* The request fields of detect_pii, for the operations that have none.
NoRequest ==
    /\ use_llm = FALSE
    /\ threshold = REVIEW_CONFIDENCE_THRESHOLD
    /\ api_key = "none"
    /\ client_ok = FALSE

Init ==
    /\ op \in {"process", "detect", "validate"}
    /\ strategy = NoStrategy
    /\ args = NoArgs
    /\ processed_text = <<>>
    /\ original_text = <<>>
    /\ pc = "detecting"
    /\ text \in Texts
    /\ use_llm \in (IF op = "detect" THEN BOOLEAN ELSE {op = "validate"})
    /\ threshold \in (IF op = "process" THEN {REVIEW_CONFIDENCE_THRESHOLD} ELSE Thresholds)
    /\ api_key \in (IF op = "process" THEN {"none"} ELSE {"none", "set"})
    /\ client_ok \in (IF op = "process" THEN {FALSE} ELSE BOOLEAN)
    /\ det_idx = 1
    /\ all_matches = <<>>
    /\ report_matches = <<>>
    /\ results = <<>>
    /\ batches = <<>>
    /\ batch_idx = 0
    /\ api_calls = <<>>
    /\ last_response = NoResponse
    /\ final_matches = <<>>
    /\ llm_rejected = {}
    /\ llm_validated = {}
    /\ summary = NoSummary
    /\ _llm_validators = EmptyCache
    /\ calls = <<>>

\* The matches argument of validate_low_confidence.
InputMatches == IF op = "detect" THEN report_matches ELSE all_matches

\* process(): one iteration of the loop over self.detectors.
RunDetector ==
    /\ pc = "detecting"
    /\ det_idx <= Len(DETECTORS)
    /\ \E out \in DetectorOutputs(DETECTORS[det_idx], text, op) :
          all_matches' = all_matches \o out
    /\ det_idx' = det_idx + 1
    /\ UNCHANGED <<_llm_validators, calls, op, strategy, args, processed_text, original_text,
                   pc, text, use_llm, threshold, api_key, client_ok, report_matches,
                   results, batches, batch_idx, api_calls, last_response, final_matches,
                   llm_rejected, llm_validated, summary>>

\* process(): after the loop, deduplicate, apply the strategy and build the report.
Process ==
    /\ pc = "detecting"
    /\ op \in {"process", "detect"}
    /\ det_idx > Len(DETECTORS)
    /\ report_matches' = _deduplicate_matches(all_matches)
    /\ processed_text' = ProcessedText(strategy, text, _deduplicate_matches(all_matches))
    /\ original_text' = text
    /\ pc' = "processed"
    /\ UNCHANGED <<_llm_validators, calls, op, strategy, args, text, use_llm, threshold, api_key, client_ok, det_idx, all_matches,
                   results, batches, batch_idx, api_calls, last_response, final_matches,
                   llm_rejected, llm_validated, summary>>

\* detect_pii without validation: use_llm is false or the validator is unavailable.
RespondWithoutLLM ==
    /\ pc = "processed"
    /\ op = "detect"
    /\ ~UsesValidator
    /\ _llm_validators' = (IF use_llm THEN get_llm_validator(_llm_validators, DefaultModel, 1)
                            ELSE _llm_validators)
    /\ final_matches' = report_matches
    /\ summary' = BuildSummary(report_matches, {})
    /\ pc' = "done"
    /\ UNCHANGED <<calls, op, strategy, args, processed_text, original_text,
                   text, use_llm, threshold, api_key, client_ok, det_idx, all_matches,
                   report_matches, results, batches, batch_idx, api_calls, last_response,
                   llm_rejected, llm_validated>>

\* validate_low_confidence up to its loop over the batches.
ValidateEnter(matches) ==
    LET low == LowConf(matches, threshold)
        approved == AutoApproved(matches, threshold)
    IN  IF low = <<>>
        THEN /\ results' = approved
             /\ batches' = <<>>
             /\ pc' = "returned"
        ELSE IF ~is_available
        THEN /\ results' = approved \o Unavailable(low)
             /\ batches' = <<>>
             /\ pc' = "returned"
        ELSE /\ results' = approved
             /\ batches' = MakeBatches(_group_by_sentence(text, low))
             /\ pc' = "batching"

\* detect_pii: use_llm and validator.is_available, so validate_low_confidence is called.
DetectValidate ==
    /\ pc = "processed"
    /\ op = "detect"
    /\ UsesValidator
    /\ _llm_validators' = get_llm_validator(_llm_validators, DefaultModel, 1)
    /\ ValidateEnter(report_matches)
    /\ UNCHANGED <<calls, op, strategy, args, processed_text, original_text,
                   text, use_llm, threshold, api_key, client_ok, det_idx, all_matches,
                   report_matches, batch_idx, api_calls, last_response, final_matches,
                   llm_rejected, llm_validated, summary>>

\* A direct call of validate_low_confidence with the list the caller built.
CallValidate ==
    /\ pc = "detecting"
    /\ op = "validate"
    /\ det_idx > Len(DETECTORS)
    /\ ValidateEnter(all_matches)
    /\ UNCHANGED <<_llm_validators, calls, op, strategy, args, processed_text, original_text,
                   text, use_llm, threshold, api_key, client_ok, det_idx, all_matches,
                   report_matches, batch_idx, api_calls, last_response, final_matches,
                   llm_rejected, llm_validated, summary>>

\* One iteration of "for batch in batches": _validate_batch(batch), one API call, and
\* results.extend(validations).
ValidateBatch ==
    /\ pc = "batching"
    /\ batch_idx < Len(batches)
    /\ LET batch == batches[batch_idx + 1]
       IN  /\ \E response \in Responses(BatchMatches(batch)) :
                 /\ last_response' = response
                 /\ results' = results \o _validate_batch(batch, response)
           /\ api_calls' = Append(api_calls, BatchMatches(batch))
    /\ batch_idx' = batch_idx + 1
    /\ pc' = "called"
    /\ UNCHANGED <<_llm_validators, calls, op, strategy, args, processed_text, original_text,
                   text, use_llm, threshold, api_key, client_ok, det_idx, all_matches,
                   report_matches, batches, final_matches, llm_rejected, llm_validated,
                   summary>>

\* A variant in which a batch whose call raised ends the loop.
MoreBatchesUnlessRaised(done) == done < Len(batches) /\ last_response.kind # "raise"

\* Whether the loop over the batches goes on after batch number done.
MoreBatches(done) == done < Len(batches)

\* The head of the loop: the response of the finished call is dropped, and the loop
\* goes on to the next batch or validate_low_confidence returns results.
LoopNext ==
    /\ pc = "called"
    /\ last_response' = NoResponse
    /\ pc' = IF MoreBatches(batch_idx) THEN "batching" ELSE "returned"
    /\ UNCHANGED <<_llm_validators, calls, op, strategy, args, processed_text, original_text,
                   text, use_llm, threshold, api_key, client_ok, det_idx, all_matches,
                   report_matches, results, batches, batch_idx, api_calls, final_matches,
                   llm_rejected, llm_validated, summary>>

\* detect_pii after validate_low_confidence returned: the loop over the results, then
\* the summary; a PIIMatch that cannot be built raises and the request fails.
Respond ==
    /\ pc = "returned"
    /\ op = "detect"
    /\ IF \E i \in 1..Len(results) : RescoreRaises(results[i])
       THEN /\ pc' = "error"
            /\ UNCHANGED <<final_matches, llm_rejected, llm_validated, summary>>
       ELSE /\ final_matches' = [i \in 1..Len(results) |-> Rescored(results[i])]
            /\ llm_rejected' = RejectedIndices(results)
            /\ llm_validated' = ValidatedIndices(results)
            /\ summary' = BuildSummary([i \in 1..Len(results) |-> Rescored(results[i])],
                                       RejectedIndices(results))
            /\ pc' = "done"
    /\ UNCHANGED <<_llm_validators, calls, op, strategy, args, processed_text, original_text,
                   text, use_llm, threshold, api_key, client_ok, det_idx, all_matches,
                   report_matches, results, batches, batch_idx, api_calls, last_response>>

Next ==
    \/ RunDetector
    \/ Process
    \/ RespondWithoutLLM
    \/ DetectValidate
    \/ CallValidate
    \/ ValidateBatch
    \/ LoopNext
    \/ Respond

Spec == Init /\ [][Next]_vars

(***************************************************************************)
(* The strategies: TextProcessor(DETECTORS, strategy).process(text), and    *)
(* strategy.apply(text, matches) on a match list built over the text.       *)
(***************************************************************************)
\* Most matches in the list apply is called with.
MaxApplyMatches == 2

\* The text apply is called on: "b" occurs twice in it.
ApplyText == <<"b", "c", "b">>
\* The text and the strategies a processor with a strategy runs with: none, and one of
\* each kind.
ProcessText == <<"a", ".", "A">>
ProcessStrategies ==
    { NoStrategy,
      RedactionStrategy(<<"[">>, <<"]">>),
      MaskingStrategy("*", 1),
      HashingStrategy(<<>>, DefaultHashLength) }
ApplyTypes == {"PHONE", "NAME"}

\* anonymize_text: PIIMatch(type, request.text[start:end], start, end, 1.0, "manual");
\* every span of the text, the empty ones included.
ApplyCandidates ==
    {PIIMatch(ty, Slice(ApplyText, sp[1], sp[2]), sp[1], sp[2], 100, <<"manual">>) :
        ty \in ApplyTypes,
        sp \in {q \in (0..Len(ApplyText)) \X (0..Len(ApplyText)) : q[1] <= q[2]}}

StrategyInit ==
    /\ op \in {"process", "apply"}
    /\ strategy \in (IF op = "process" THEN ProcessStrategies ELSE Strategies)
    /\ args = NoArgs
    /\ pc = (IF op = "process" THEN "detecting" ELSE "calling")
    /\ text = (IF op = "process" THEN ProcessText ELSE ApplyText)
    /\ NoRequest
    /\ Untouched

\* strategy.apply(text, matches)
ApplyStrategy ==
    /\ pc = "calling"
    /\ op = "apply"
    /\ \E matches \in SeqsUpTo(ApplyCandidates, MaxApplyMatches) :
          /\ all_matches' = matches
          /\ processed_text' = Apply(strategy, text, matches)
    /\ pc' = "applied"
    /\ UNCHANGED <<_llm_validators, calls, op, strategy, args, original_text, text, use_llm, threshold, api_key,
                   client_ok, det_idx, report_matches, results, batches, batch_idx,
                   api_calls, last_response, final_matches, llm_rejected, llm_validated,
                   summary>>

StrategyNext ==
    \/ RunDetector
    \/ Process
    \/ ApplyStrategy

StrategySpec == StrategyInit /\ [][StrategyNext]_vars

(***************************************************************************)
(* core/models.py: constructing a PIIMatch.                                 *)
(***************************************************************************)
\* Largest start and end a match is constructed with; the smallest is -1.
MaxPosition == 3
\* Confidences a match is constructed with, in hundredths.
ConstructConfidences == {-100, -1, 0, 50, 100, 101, 150}

MatchInit ==
    /\ op = "construct"
    /\ strategy = NoStrategy
    /\ args \in [start : -1..MaxPosition, end : -1..MaxPosition,
                  confidence : ConstructConfidences]
    /\ pc = "constructing"
    /\ text = <<>>
    /\ NoRequest
    /\ Untouched

\* PIIMatch(...): __post_init__ raises ValueError, or the match exists with the fields
\* it was given.
Construct ==
    /\ pc = "constructing"
    /\ op = "construct"
    /\ IF PIIMatchRaises(args.start, args.end, args.confidence)
       THEN /\ pc' = "raised"
            /\ UNCHANGED all_matches
       ELSE /\ pc' = "built"
            /\ all_matches' = <<PIIMatch("NAME", <<>>, args.start, args.end,
                                          args.confidence, <<"unknown">>)>>
    /\ UNCHANGED <<_llm_validators, calls, op, strategy, args, processed_text, original_text, text, use_llm,
                   threshold, api_key, client_ok, det_idx, report_matches, results,
                   batches, batch_idx, api_calls, last_response, final_matches,
                   llm_rejected, llm_validated, summary>>

MatchNext == Construct

MatchSpec == MatchInit /\ [][MatchNext]_vars

(***************************************************************************)
(* detectors/credit_card.py on a text that is a string of digits.  PATTERN  *)
(* is anchored by \b on both sides, so on such a text it matches the whole  *)
(* text when the text has 13 to 19 digits and nothing otherwise.            *)
(***************************************************************************)
\* credit_card.py: the card lengths of PATTERN and of detect
MinCardLen == 13
MaxCardLen == 19
\* Number of leading digits of a card number that vary in the model.
FreeDigits == 2

Digits == <<"0", "1", "2", "3", "4", "5", "6", "7", "8", "9">>
\* int(char)
DigitValue(c) == (CHOOSE i \in 1..Len(Digits) : Digits[i] = c) - 1

\* A variant of the Luhn sum that doubles without reducing the doubled digit.
LuhnDigitNoReduce(i, digit) == IF i % 2 = 1 THEN 2 * digit ELSE digit

\* _luhn_check: what the digit at index i of the reversed number adds to the total.
LuhnDigit(i, digit) ==
    IF i % 2 = 1
    THEN IF 2 * digit > 9 THEN 2 * digit - 9 ELSE 2 * digit
    ELSE digit

RECURSIVE LuhnTotal(_, _)
LuhnTotal(reverse_digits, i) ==
    IF i >= Len(reverse_digits) THEN 0
    ELSE LuhnDigit(i, DigitValue(reverse_digits[i + 1])) + LuhnTotal(reverse_digits, i + 1)

_luhn_check(digits) ==
    LET reverse_digits == [i \in 1..Len(digits) |-> digits[Len(digits) + 1 - i]]
    IN  LuhnTotal(reverse_digits, 0) % 10 = 0

\* PATTERN.finditer(text) on a string of digits: the (start, end) of the matches.
PatternMatches(t) ==
    IF MinCardLen <= Len(t) /\ Len(t) <= MaxCardLen THEN << <<0, Len(t)>> >> ELSE <<>>

\* CreditCardDetector.detect(text)
CardDetect(t) ==
    LET found == PatternMatches(t)
        valid(sp) ==
            LET digits == Slice(t, sp[1], sp[2])
            IN  /\ ~(Len(digits) < MinCardLen \/ Len(digits) > MaxCardLen)
                /\ _luhn_check(digits)
        kept == SelectSeq(found, valid)
    IN  [i \in 1..Len(kept) |->
            PIIMatch("CREDIT_CARD", Slice(t, kept[i][1], kept[i][2]), kept[i][1],
                     kept[i][2], 100, <<"credit_card">>)]

\* The digit strings of the model: FreeDigits free digits followed by 1, 2, 3, ...
CardTexts ==
    {[i \in 1..n |-> IF i <= FreeDigits THEN f[i] ELSE Digits[(i % 10) + 1]] :
        n \in (MinCardLen - 1)..(MaxCardLen + 1),
        f \in [1..FreeDigits -> {Digits[j] : j \in 1..Len(Digits)}]}

CardInit ==
    /\ op = "card"
    /\ strategy = NoStrategy
    /\ args = NoArgs
    /\ pc = "detecting"
    /\ text \in CardTexts
    /\ NoRequest
    /\ Untouched

\* detect(text)
DetectCards ==
    /\ pc = "detecting"
    /\ op = "card"
    /\ report_matches' = CardDetect(text)
    /\ original_text' = text
    /\ pc' = "detected"
    /\ UNCHANGED <<_llm_validators, calls, op, strategy, args, processed_text, text, use_llm, threshold, api_key,
                   client_ok, det_idx, all_matches, results, batches, batch_idx,
                   api_calls, last_response, final_matches, llm_rejected, llm_validated,
                   summary>>

\* One digit of a detected card number is changed and detect runs on the result.
ChangeDigit ==
    /\ pc = "detected"
    /\ op = "card"
    /\ report_matches # <<>>
    /\ \E i \in 1..Len(text) :
          \E d \in {Digits[j] : j \in 1..Len(Digits)} \ {text[i]} :
             /\ text' = [text EXCEPT ![i] = d]
             /\ report_matches' = CardDetect([text EXCEPT ![i] = d])
    /\ pc' = "changed"
    /\ UNCHANGED <<_llm_validators, calls, op, strategy, args, processed_text, original_text, use_llm, threshold,
                   api_key, client_ok, det_idx, all_matches, results, batches, batch_idx,
                   api_calls, last_response, final_matches, llm_rejected, llm_validated,
                   summary>>

CardNext ==
    \/ DetectCards
    \/ ChangeDigit

CardSpec == CardInit /\ [][CardNext]_vars

(***************************************************************************)
(* detectors/iban.py and detectors/german_id.py on a text that is one word  *)
(* of letters and digits.  Both patterns are anchored by \b on both sides,  *)
(* so on such a text they match the whole text or nothing.                  *)
(***************************************************************************)
\* Number of trailing characters of an IBAN, and of characters of a German ID number,
\* that vary in the model.
IbanFreeChars == 1
IdFreeChars == 3

UpperCase == <<"A", "B", "C", "D", "E", "F", "G", "H", "I", "J", "K", "L", "M",
               "N", "O", "P", "Q", "R", "S", "T", "U", "V", "W", "X", "Y", "Z">>
LowerCase == <<"a", "b", "c", "d", "e", "f", "g", "h", "i", "j", "k", "l", "m",
               "n", "o", "p", "q", "r", "s", "t", "u", "v", "w", "x", "y", "z">>
DigitSet == {Digits[j] : j \in 1..Len(Digits)}
LetterSet == {UpperCase[j] : j \in 1..Len(UpperCase)} \cup {LowerCase[j] : j \in 1..Len(LowerCase)}

\* str.upper() on one character and on a word.
UpperChar(c) ==
    IF \E j \in 1..Len(LowerCase) : LowerCase[j] = c
    THEN UpperCase[CHOOSE j \in 1..Len(LowerCase) : LowerCase[j] = c]
    ELSE c
Upper(w) == [i \in 1..Len(w) |-> UpperChar(w[i])]

\* ord(char.upper()) - 55, and CHAR_VALUES of german_id.py: A is 10, ..., Z is 35.
LetterValue(c) == (CHOOSE j \in 1..Len(UpperCase) : UpperCase[j] = UpperChar(c)) + 9

\* str(n) for 0 <= n <= 99
Str(n) == IF n < 10 THEN <<Digits[n + 1]>> ELSE <<Digits[(n \div 10) + 1], Digits[(n % 10) + 1]>>

\* int(numeric) % m for a string of digits: the value is taken modulo m digit by digit.
RECURSIVE IntMod(_, _, _)
IntMod(numeric, m, acc) ==
    IF numeric = <<>> THEN acc
    ELSE IntMod(Tail(numeric), m, (acc * 10 + DigitValue(Head(numeric))) % m)

\* IBAN_LENGTHS
IBAN_LENGTHS ==
    { <<<<"D", "E">>, 22>>, <<<<"A", "T">>, 20>>, <<<<"C", "H">>, 21>>,
      <<<<"F", "R">>, 27>>, <<<<"N", "L">>, 18>>, <<<<"B", "E">>, 16>>,
      <<<<"E", "S">>, 24>>, <<<<"I", "T">>, 27>>, <<<<"G", "B">>, 22>>,
      <<<<"P", "L">>, 28>> }
\* self.IBAN_LENGTHS.get(country): 0 stands for None.
ExpectedLen(country) ==
    IF \E e \in IBAN_LENGTHS : e[1] = country
    THEN (CHOOSE e \in IBAN_LENGTHS : e[1] = country)[2]
    ELSE 0

\* A variant of the checksum that leaves the first four characters in front.
NotRearranged(iban) == iban

\* rearranged = iban[4:] + iban[:4]
Rearranged(iban) == From(iban, 4) \o Upto(iban, 4)

\* The loop that builds numeric.
RECURSIVE Numeric(_)
Numeric(w) ==
    IF w = <<>> THEN <<>>
    ELSE (IF Head(w) \in DigitSet THEN <<Head(w)>> ELSE Str(LetterValue(Head(w))))
         \o Numeric(Tail(w))

\* IBANDetector._validate_checksum
_validate_checksum(iban) == IntMod(Numeric(Rearranged(iban)), 97, 0) = 1

\* IBANDetector.PATTERN.finditer(text) on a word: 2 letters, 2 digits, 4 to 30
\* alphanumerics.
IbanPatternMatches(t) ==
    IF /\ 8 <= Len(t) /\ Len(t) <= 34
       /\ t[1] \in LetterSet /\ t[2] \in LetterSet
       /\ t[3] \in DigitSet /\ t[4] \in DigitSet
       /\ \A i \in 5..Len(t) : t[i] \in LetterSet \cup DigitSet
    THEN << <<0, Len(t)>> >>
    ELSE <<>>

\* IBANDetector.detect(text)
IbanDetect(t) ==
    LET found == IbanPatternMatches(t)
        kept(sp) ==
            LET iban == Upper(Slice(t, sp[1], sp[2]))
                expected_len == ExpectedLen(Upto(iban, 2))
            IN  ~(expected_len # 0 /\ Len(iban) # expected_len)
        passed == SelectSeq(found, kept)
    IN  [i \in 1..Len(passed) |->
            PIIMatch("IBAN", Slice(t, passed[i][1], passed[i][2]), passed[i][1],
                     passed[i][2],
                     IF _validate_checksum(Upper(Slice(t, passed[i][1], passed[i][2])))
                     THEN 100 ELSE 70,
                     <<"iban">>)]

\* The IBAN-shaped words of the model: a country code, two check digits, and digits
\* with IbanFreeChars free characters at the end, 16 or 18 characters in all.
IbanCountries == { <<"B", "E">>, <<"n", "l">>, <<"S", "E">> }
IbanTexts ==
    {c \o <<k1, k2>>
       \o [i \in 1..(n - 4) |-> IF i > n - 4 - IbanFreeChars THEN f[n - 4 - i + 1]
                                ELSE Digits[(i % 10) + 1]] :
        c \in IbanCountries, k1 \in DigitSet, k2 \in DigitSet, n \in {16, 18},
        f \in [1..IbanFreeChars -> {"0", "A", "a"}]}

\* GermanIDDetector.WEIGHTS and the first letters of PATTERN
WEIGHTS == <<7, 3, 1, 7, 3, 1, 7, 3, 1>>
IdFirstLetters == {"L", "M", "N", "P", "R", "T", "V", "W", "X", "Y"}

\* self.CHAR_VALUES.get(char.upper(), 0)
CharValue(c) ==
    IF c \in DigitSet THEN DigitValue(c)
    ELSE IF c \in LetterSet THEN LetterValue(c)
    ELSE 0

\* A variant of the check digit that weighs every character with 1.
UnweightedCheckDigit(id_number) ==
    LET RECURSIVE Sum(_)
        Sum(i) == IF i > Min(9, Len(id_number)) THEN 0
                  ELSE CharValue(id_number[i]) + Sum(i + 1)
    IN  Sum(1) % 10

\* GermanIDDetector._calculate_check_digit
_calculate_check_digit(id_number) ==
    LET RECURSIVE Sum(_)
        Sum(i) == IF i > Min(9, Len(id_number)) THEN 0
                  ELSE CharValue(id_number[i]) * WEIGHTS[i] + Sum(i + 1)
    IN  Sum(1) % 10

\* GermanIDDetector.PATTERN.finditer(text) on a word: group 1 is the first nine
\* characters, group 2 the tenth, a digit, when there is one.
IdPatternMatches(t) ==
    IF /\ Len(t) \in {9, 10}
       /\ UpperChar(t[1]) \in IdFirstLetters
       /\ \A i \in 2..9 : t[i] \in LetterSet \cup DigitSet
       /\ Len(t) = 10 => t[10] \in DigitSet
    THEN << <<0, Len(t)>> >>
    ELSE <<>>

\* GermanIDDetector.detect(text)
IdDetect(t) ==
    LET found == IdPatternMatches(t)
        id_number == Upper(Upto(t, 9))
        digit_count == Cardinality({i \in 1..Len(id_number) : id_number[i] \in DigitSet})
        confidence ==
            IF Len(t) = 10
            THEN IF DigitValue(t[10]) = _calculate_check_digit(id_number)
                 THEN 100 ELSE 60
            ELSE 80
    IN  IF found = <<>> \/ digit_count < 2 THEN <<>>
        ELSE <<PIIMatch("GERMAN_ID", t, 0, Len(t), confidence, <<"german_id">>)>>

\* The German-ID candidates of the model: a first letter, letters, IdFreeChars free
\* characters, and a check digit or none.
IdTexts ==
    {<<first>>
       \o [i \in 1..8 |-> IF i > 8 - IdFreeChars THEN f[8 - i + 1] ELSE UpperCase[i]]
       \o check :
        first \in {"L", "t"},
        f \in [1..IdFreeChars -> {"0", "7", "k"}],
        check \in {<<>>} \cup {<<d>> : d \in DigitSet}}

ChecksumInit ==
    /\ op \in {"iban", "german_id"}
    /\ strategy = NoStrategy
    /\ args = NoArgs
    /\ pc = "detecting"
    /\ text \in (IF op = "iban" THEN IbanTexts ELSE IdTexts)
    /\ NoRequest
    /\ Untouched

\* IBANDetector().detect(text)
DetectIban ==
    /\ pc = "detecting"
    /\ op = "iban"
    /\ report_matches' = IbanDetect(text)
    /\ original_text' = text
    /\ pc' = "detected"
    /\ UNCHANGED <<_llm_validators, calls, op, strategy, args, processed_text, text, use_llm, threshold, api_key,
                   client_ok, det_idx, all_matches, results, batches, batch_idx,
                   api_calls, last_response, final_matches, llm_rejected, llm_validated,
                   summary>>

\* The position of the last digit of a word that has one.
LastDigitPos(w) == CHOOSE i \in 1..Len(w) :
    w[i] \in DigitSet /\ \A j \in (i + 1)..Len(w) : w[j] \notin DigitSet

\* The last digit of the text is replaced by a different digit and detect runs on the
\* result.
ChangeLastDigit ==
    /\ pc = "detected"
    /\ op = "iban"
    /\ \E d \in DigitSet \ {text[LastDigitPos(text)]} :
          /\ text' = [text EXCEPT ![LastDigitPos(text)] = d]
          /\ report_matches' = IbanDetect([text EXCEPT ![LastDigitPos(text)] = d])
    /\ pc' = "changed"
    /\ UNCHANGED <<_llm_validators, calls, op, strategy, args, processed_text, original_text, use_llm, threshold,
                   api_key, client_ok, det_idx, all_matches, results, batches, batch_idx,
                   api_calls, last_response, final_matches, llm_rejected, llm_validated,
                   summary>>

\* GermanIDDetector().detect(text)
DetectGermanId ==
    /\ pc = "detecting"
    /\ op = "german_id"
    /\ report_matches' = IdDetect(text)
    /\ original_text' = text
    /\ pc' = "detected"
    /\ UNCHANGED <<_llm_validators, calls, op, strategy, args, processed_text, text, use_llm, threshold, api_key,
                   client_ok, det_idx, all_matches, results, batches, batch_idx,
                   api_calls, last_response, final_matches, llm_rejected, llm_validated,
                   summary>>

ChecksumNext ==
    \/ DetectIban
    \/ ChangeLastDigit
    \/ DetectGermanId

ChecksumSpec == ChecksumInit /\ [][ChecksumNext]_vars

(***************************************************************************)
(* api/routes.py: get_llm_validator called by several requests at once.     *)
(* A call is its model argument, its position (the membership test, the     *)
(* constructor, the store into the cache, the read of the return            *)
(* statement), the validator it has constructed and the validator it has    *)
(* returned; after_return records whether a call for the same model had     *)
(* already returned when this one began.  The steps of different calls       *)
(* interleave freely: the function takes no lock.                           *)
(***************************************************************************)
\* Most calls of get_llm_validator.
MaxCalls == 3

CallRecord(model, position, validator, returned, after_return) ==
    [model |-> model, pc |-> position, validator |-> validator, returned |-> returned,
     after_return |-> after_return]

CacheInit ==
    /\ op = "get_llm_validator"
    /\ strategy = NoStrategy
    /\ args = NoArgs
    /\ pc = "serving"
    /\ text = <<>>
    /\ NoRequest
    /\ Untouched

CacheUnchanged ==
    UNCHANGED <<op, strategy, args, processed_text, original_text, pc, text, use_llm,
                threshold, api_key, client_ok, det_idx, all_matches, report_matches,
                results, batches, batch_idx, api_calls, last_response, final_matches,
                llm_rejected, llm_validated, summary>>

\* A request calls get_llm_validator(model).
StartCall ==
    /\ op = "get_llm_validator"
    /\ Len(calls) < MaxCalls
    /\ \E model \in ClaudeModelName :
          calls' = Append(calls,
                     CallRecord(model, "check", NoValidator, NoValidator,
                                \E i \in 1..Len(calls) :
                                    calls[i].model = model /\ calls[i].pc = "done"))
    /\ UNCHANGED _llm_validators
    /\ CacheUnchanged

\* if model not in _llm_validators:
CheckCache ==
    /\ \E i \in 1..Len(calls) :
          /\ calls[i].pc = "check"
          /\ calls' = [calls EXCEPT ![i].pc =
                          IF calls[i].model \notin DOMAIN _llm_validators
                          THEN "create" ELSE "return"]
    /\ UNCHANGED _llm_validators
    /\ CacheUnchanged

\* LLMValidator(model=model), the right-hand side of the assignment.
CreateValidator ==
    /\ \E i \in 1..Len(calls) :
          /\ calls[i].pc = "create"
          /\ calls' = [calls EXCEPT ![i].pc = "store",
                                    ![i].validator = LLMValidator(calls[i].model, i)]
    /\ UNCHANGED _llm_validators
    /\ CacheUnchanged

\* _llm_validators[model] = ...
StoreValidator ==
    /\ \E i \in 1..Len(calls) :
          /\ calls[i].pc = "store"
          /\ _llm_validators' = Put(_llm_validators, calls[i].model, calls[i].validator)
          /\ calls' = [calls EXCEPT ![i].pc = "return"]
    /\ CacheUnchanged

\* return _llm_validators[model]
ReturnValidator ==
    /\ \E i \in 1..Len(calls) :
          /\ calls[i].pc = "return"
          /\ calls' = [calls EXCEPT ![i].pc = "done",
                                    ![i].returned = _llm_validators[calls[i].model]]
    /\ UNCHANGED _llm_validators
    /\ CacheUnchanged

CacheNext ==
    \/ StartCall
    \/ CheckCache
    \/ CreateValidator
    \/ StoreValidator
    \/ ReturnValidator

CacheSpec == CacheInit /\ [][CacheNext]_vars

(***************************************************************************)
(* Properties.                                                             *)
(***************************************************************************)
\* process() has returned its report (detect_pii goes on from there).
Processed == op \in {"process", "detect"} /\ pc # "detecting"

SameSpan(a, b) == a.start = b.start /\ a.end = b.end

\* Index i of all_matches holds the survivor of its span: no match of the span is more
\* confident, and no earlier one is as confident.
IsSurvivor(i) ==
    \A j \in 1..Len(all_matches) :
        SameSpan(all_matches[j], all_matches[i]) =>
            \/ all_matches[j].confidence < all_matches[i].confidence
            \/ (all_matches[j].confidence = all_matches[i].confidence /\ j >= i)

\* validate_low_confidence has returned its result list.
Returned == pc = "returned"

\* How many entries of seq equal x.
CountIn(seq, x) == Cardinality({i \in 1..Len(seq) : seq[i] = x})

ResultMatches == [i \in 1..Len(results) |-> results[i].match]

\* C1: whatever the LLM backend does, the list validate_low_confidence returns holds
\* every input match exactly once: one result per input match, none dropped, none
\* duplicated.
C1_EveryMatchExactlyOnce ==
    Returned =>
        /\ Len(results) = Len(InputMatches)
        /\ \A i \in 1..Len(InputMatches) :
              CountIn(ResultMatches, InputMatches[i]) = CountIn(InputMatches, InputMatches[i])

\* A call returned with an auto-approved match, a match the LLM rejected and a match the
\* response had no entry left for, two of them in one sentence.
C1_Witness ==
    /\ Returned
    /\ api_calls # <<>>
    /\ \E i, j, k \in 1..Len(results) :
          /\ results[i].validation.reason = HighConfidenceReason
          /\ ~results[j].validation.is_pii
          /\ results[k].validation.reason = NotInResponseReason
    /\ \E b \in 1..Len(batches) : \E g \in 1..Len(batches[b]) :
          Len(batches[b][g].matches) >= 2

\* C2: when the LLM client is unavailable (no credential, or the client cannot be
\* created) validate_low_confidence makes no API call and returns len(matches) results,
\* every one with is_pii true and the confidence of its match.
C2_UnavailableKeepsAll ==
    /\ (op = "validate" /\ ~is_available) => (pc \in {"detecting", "returned"} /\ api_calls = <<>>)
    /\ (Returned /\ ~is_available) =>
          /\ Len(results) = Len(InputMatches)
          /\ \A i \in 1..Len(results) :
                /\ results[i].validation.is_pii
                /\ results[i].validation.confidence = results[i].match.confidence

\* The client could not be created although a key is set, and the call returned results
\* for matches below and at the threshold.
C2_Witness ==
    /\ Returned
    /\ api_key = "set" /\ ~ClientCreated
    /\ LowConf(InputMatches, threshold) # <<>>
    /\ HighConf(InputMatches, threshold) # <<>>
    /\ Len(results) = Len(InputMatches)

\* detect_pii ran with use_llm and an available validator.
DetectWithLLM == op = "detect" /\ use_llm /\ is_available

\* C3: a malformed LLM response is never fatal: whatever text the LLM returns (not JSON,
\* JSON that is no array, entries whose text is no string, entries whose confidence is
\* no number or lies outside [0.0, 1.0]), detect_pii with LLM validation does not end in
\* an unhandled exception.
C3_MalformedResponseNeverFatal == DetectWithLLM => pc # "error"

\* The matches of the batch whose call has just finished, and their results: the last
\* entries of results.
CalledMatches == BatchMatches(batches[batch_idx])
CalledResults == SubSeq(results, Len(results) - Len(CalledMatches) + 1, Len(results))

\* The call of a batch raised: every match of the batch is kept as PII at its own
\* confidence with a reason that starts with "LLM error: ".
RaisedBatchFallsBack ==
    (pc = "called" /\ last_response.kind = "raise") =>
        /\ Len(CalledResults) = Len(CalledMatches)
        /\ \A k \in 1..Len(CalledMatches) :
              /\ CalledResults[k].match = CalledMatches[k]
              /\ CalledResults[k].validation.is_pii
              /\ CalledResults[k].validation.confidence = CalledMatches[k].confidence
              /\ Head(CalledResults[k].validation.reason) = "LLM error: "

\* When the call returns after going to the LLM, every batch was attempted, in order.
AllBatchesAttempted ==
    (Returned /\ batches # <<>>) =>
        /\ batch_idx = Len(batches)
        /\ api_calls = [b \in 1..Len(batches) |-> BatchMatches(batches[b])]

\* No step changes a result already in the list, and what a batch adds is decided by
\* that batch and its own response alone.
BatchStepIsolated ==
    /\ Len(results) <= Len(results') /\ SubSeq(results', 1, Len(results)) = results
    /\ (pc = "batching" /\ pc' = "called") =>
          SubSeq(results', Len(results) + 1, Len(results'))
              = _validate_batch(batches[batch_idx'], last_response')

\* C4: batch failure is isolated: when the API call of a batch raises, every match of
\* that batch gets is_pii true, its original confidence and a reason starting with
\* "LLM error: "; the results of the other batches are what their own responses make
\* them; and the later batches are still attempted.
C4_BatchFailureIsolated ==
    [](RaisedBatchFallsBack /\ AllBatchesAttempted) /\ [][BatchStepIsolated]_vars

\* The call of the first batch raised and the second batch was then validated by the
\* LLM, which rejected its match.
C4_Witness ==
    /\ pc = "called"
    /\ batch_idx = 2
    /\ Head(results[1].validation.reason) = "LLM error: "
    /\ last_response.kind = "text"
    /\ ~results[Len(results)].validation.is_pii

\* The parsing of the last response went through: it is a JSON array and no entry
\* examined for a candidate was malformed.
ParseCompleted ==
    /\ last_response.kind = "text"
    /\ ParseTry(last_response, CalledMatches).exc = "none"

\* The response holds an entry whose text equals the text of m, case-insensitively.
HasEntry(m) ==
    LET data == JsonLoads(last_response)
    IN  /\ data.t = "array"
        /\ \E i \in 1..Len(data.items) :
              /\ EntryTextLower(data.items[i]).ok
              /\ data.items[i].text.t = "str"
              /\ EntryTextLower(data.items[i]).s = Lower(m.text)

ValidateEntered == pc \in {"batching", "called", "returned"}

\* C6: every match whose confidence is at least the threshold (equal included) is
\* auto-approved with is_pii true, its own confidence and the reason "High confidence -
\* auto-approved"; no prompt sent to the LLM lists such a match; and when no match is
\* below the threshold no API call is made.
C6_HighConfidenceAutoApproved ==
    ValidateEntered =>
        /\ \A i \in 1..Len(InputMatches) :
              InputMatches[i].confidence >= threshold =>
                  \E k \in 1..Len(results) :
                      results[k] = Pair(InputMatches[i],
                                        ValidationResult(TRUE, InputMatches[i].confidence,
                                                         HighConfidenceReason))
        /\ \A c \in 1..Len(api_calls) : \A k \in 1..Len(api_calls[c]) :
              api_calls[c][k].confidence < threshold
        /\ (\A i \in 1..Len(InputMatches) : InputMatches[i].confidence >= threshold) =>
              (api_calls = <<>> /\ batches = <<>> /\ Returned)

\* A call that went to the LLM for some matches returned, and a match whose confidence
\* equals the threshold was among its input.
C6_Witness ==
    /\ Returned
    /\ api_calls # <<>>
    /\ \E i \in 1..Len(InputMatches) : InputMatches[i].confidence = threshold

\* detect_pii has answered a request it validated with the LLM.
DetectValidated == DetectWithLLM /\ pc = "done"

IsFallback(v) ==
    \/ v.reason \in {NotInResponseReason, ParseFailedReason, UnavailableReason}
    \/ Head(v.reason) = "LLM error: "

\* The match of result p was at or above the threshold, or an entry of an LLM response
\* approved it.
ApprovedOrHigh(p) ==
    \/ p.match.confidence >= threshold
    \/ (p.validation.is_pii /\ ~IsFallback(p.validation))

\* The 1-based indices of the matches the summary counts.
SummaryCounted == {i \in 1..Len(final_matches) : results[i].validation.is_pii}

C9_DedupKeepsHighestFirstSeen ==
    Processed =>
        /\ \A i \in 1..Len(all_matches) :
              Cardinality({k \in 1..Len(report_matches) :
                              SameSpan(report_matches[k], all_matches[i])}) = 1
        /\ \A k \in 1..Len(report_matches) :
              \E i \in 1..Len(all_matches) :
                  IsSurvivor(i) /\ report_matches[k] = all_matches[i]

\* Two detectors reported the same span with the same confidence and different kinds.
C9_Witness ==
    /\ Processed
    /\ \E i, j \in 1..Len(all_matches) :
          /\ i < j
          /\ SameSpan(all_matches[i], all_matches[j])
          /\ all_matches[i].confidence = all_matches[j].confidence
          /\ all_matches[i].type # all_matches[j].type
          /\ report_matches # <<>>

\* C10: after process(), report.matches is in non-decreasing order of start and no two
\* of its entries have the same (start, end).
C10_ReportSortedUnique ==
    Processed =>
        /\ \A i, j \in 1..Len(report_matches) :
              i < j => report_matches[i].start <= report_matches[j].start
        /\ \A i, j \in 1..Len(report_matches) :
              i # j => ~SameSpan(report_matches[i], report_matches[j])

\* The detectors reported a span twice and reported a later span before an earlier one.
C10_Witness ==
    /\ Processed
    /\ Len(report_matches) >= 2
    /\ Len(all_matches) > Len(report_matches)
    /\ \E i, j \in 1..Len(all_matches) :
          i < j /\ all_matches[i].start > all_matches[j].start

\* PIIMatch.overlaps
overlaps(a, b) == a.start < b.end /\ b.start < a.end

DistinctSpans(ms) == {<<ms[i].start, ms[i].end>> : i \in 1..Len(ms)}

\* C11: deduplication removes exact-span duplicates only.  Every match of the report is
\* an element of the detector output, unmodified; every distinct (start, end) of the
\* detector output has exactly one match in the report; so matches of different spans
\* all survive, also when the spans overlap or one contains the other.
C11_ExactSpanOnly ==
    Processed =>
        /\ \A i \in 1..Len(report_matches) :
              \E j \in 1..Len(all_matches) : report_matches[i] = all_matches[j]
        /\ \A sp \in DistinctSpans(all_matches) :
              Cardinality({i \in 1..Len(report_matches) :
                  report_matches[i].start = sp[1] /\ report_matches[i].end = sp[2]}) = 1
        /\ Len(report_matches) = Cardinality(DistinctSpans(all_matches))

\* Two matches of the report overlap partially: neither span is the other's.
C11_Witness ==
    /\ Processed
    /\ \E i, j \in 1..Len(report_matches) :
          /\ overlaps(report_matches[i], report_matches[j])
          /\ report_matches[i].start < report_matches[j].start
          /\ report_matches[i].end < report_matches[j].end

\* strategy.apply has returned.
Applied == op = "apply" /\ pc = "applied"

NonOverlapping(ms) == \A i, j \in 1..Len(ms) : i # j => ~overlaps(ms[i], ms[j])
NonEmptySpans(ms) == \A i \in 1..Len(ms) : ms[i].start < ms[i].end

\* Matches of distinct starts in ascending order of start.
AscendingByStart(ms) ==
    [k \in 1..Len(ms) |->
        ms[CHOOSE i \in 1..Len(ms) :
              Cardinality({j \in 1..Len(ms) : ms[j].start < ms[i].start}) = k - 1]]

\* text[pos:s1] + r(m1) + text[e1:s2] + ... + r(mn) + text[en:], from left to right.
RECURSIVE Stitch(_, _, _, _)
Stitch(st, t, ascending, pos) ==
    IF ascending = <<>> THEN SubSeq(t, pos + 1, Len(t))
    ELSE SubSeq(t, pos + 1, Head(ascending).start)
         \o Replacement(st, Head(ascending))
         \o Stitch(st, t, Tail(ascending), Head(ascending).end)

\* C12: offset integrity.  For matches with non-empty, pairwise non-overlapping spans
\* inside the text, apply returns the text with each span replaced by the replacement
\* of its match and every character outside the spans kept in place, whatever the
\* lengths of the replacements.
C12_OffsetIntegrity ==
    (Applied /\ NonEmptySpans(all_matches) /\ NonOverlapping(all_matches)) =>
        processed_text = Stitch(strategy, text, AscendingByStart(all_matches), 0)

\* Two matches are given in ascending order and the replacements change the length of
\* the text.
C12_Witness ==
    /\ Applied
    /\ Len(all_matches) = 2
    /\ NonEmptySpans(all_matches)
    /\ NonOverlapping(all_matches)
    /\ all_matches[1].start < all_matches[2].start
    /\ Len(Replacement(strategy, all_matches[1]))
           # all_matches[1].end - all_matches[1].start
    /\ Len(processed_text) # Len(text)

\* The orders a list can be given in.
Perms(ms) ==
    {[i \in 1..Len(ms) |-> ms[f[i]]] :
        f \in {g \in [1..Len(ms) -> 1..Len(ms)] :
                  \A i, j \in 1..Len(ms) : i # j => g[i] # g[j]}}

\* C13: apply accepts the matches in any order.  For a list whose matches do not overlap
\* pairwise (PIIMatch.overlaps is false for each pair, which admits an empty span at the
\* start of another match), every order of the list gives the same output.
C13_AnyOrder ==
    (Applied /\ NonOverlapping(all_matches)) =>
        \A p \in Perms(all_matches) : Apply(strategy, text, p) = processed_text

\* C14: apply(text, []) returns the text unchanged, for every strategy.
C14_EmptyMatchesIdentity ==
    (Applied /\ all_matches = <<>>) => processed_text = text

\* A hashing strategy was applied to an empty list.
C14_Witness ==
    /\ Applied
    /\ all_matches = <<>>
    /\ strategy.kind = "hashing"
    /\ processed_text = text

\* The masking rule: v[0:k] + c * 3 + the last k characters of v when v is longer than
\* 2k, and c * len(v) otherwise.
ExpectedMask(c, k, v) ==
    IF Len(v) > 2 * k
    THEN SubSeq(v, 1, k) \o <<c, c, c>> \o SubSeq(v, Len(v) - k + 1, Len(v))
    ELSE [i \in 1..Len(v) |-> c]

\* C15: masking with k >= 1 visible characters and mask character c replaces a value v
\* by v[0:k] + c*3 + v[-k:] when len(v) > 2k and by c * len(v) when len(v) <= 2k; a
\* value of length exactly 2k is masked entirely.
C15_MaskingRule ==
    (Applied /\ strategy.kind = "masking" /\ strategy.visible_chars >= 1
        /\ Len(all_matches) = 1) =>
        LET m == all_matches[1]
        IN  processed_text =
                SubSeq(text, 1, m.start)
                \o ExpectedMask(strategy.mask_char, strategy.visible_chars, m.text)
                \o SubSeq(text, m.end + 1, Len(text))

\* A value of length exactly 2k was masked entirely.
C15_Witness ==
    /\ Applied
    /\ strategy.kind = "masking"
    /\ Len(all_matches) = 1
    /\ Len(all_matches[1].text) = 2 * strategy.visible_chars
    /\ Len(all_matches[1].text) > 0
    /\ processed_text =
           SubSeq(text, 1, all_matches[1].start)
           \o [i \in 1..Len(all_matches[1].text) |-> strategy.mask_char]
           \o SubSeq(text, all_matches[1].end + 1, Len(text))

\* What the replacements of the matches in S add to the length of the text, each being
\* len characters long.
RECURSIVE Grown(_, _, _)
Grown(ms, S, len) ==
    IF S = {} THEN 0
    ELSE LET j == CHOOSE x \in S : TRUE
         IN  len - (ms[j].end - ms[j].start) + Grown(ms, S \ {j}, len)

\* Where the token of match i begins in the output, for non-overlapping non-empty spans:
\* its start moved by what the replacements to its left added.
TokenStart(ms, i, len) ==
    ms[i].start + Grown(ms, {j \in 1..Len(ms) : ms[j].start < ms[i].start}, len)

\* The token that stands for match i in the output.
TokenAt(i) ==
    LET from == TokenStart(all_matches, i, strategy.length)
    IN  SubSeq(processed_text, from + 1, from + strategy.length)

\* C16: hashing is deterministic.  With the salt and the length fixed, the token of a
\* match depends on match.text alone: matches of equal text get the same token, whatever
\* their position and kind, and the token is the one a call on that text alone gives.
C16_HashDeterministic ==
    (Applied /\ strategy.kind = "hashing" /\ NonEmptySpans(all_matches)
        /\ NonOverlapping(all_matches)) =>
        /\ \A i, j \in 1..Len(all_matches) :
              all_matches[i].text = all_matches[j].text => TokenAt(i) = TokenAt(j)
        /\ \A i \in 1..Len(all_matches) :
              TokenAt(i) =
                  Apply(strategy, all_matches[i].text,
                        <<PIIMatch("PHONE", all_matches[i].text, 0,
                                   Len(all_matches[i].text), 100, <<"manual">>)>>)

\* Two matches of equal text, different position and different kind were hashed.
C16_Witness ==
    /\ Applied
    /\ strategy.kind = "hashing"
    /\ Len(all_matches) = 2
    /\ NonOverlapping(all_matches)
    /\ all_matches[1].text = all_matches[2].text
    /\ all_matches[1].text # <<>>
    /\ all_matches[1].start # all_matches[2].start
    /\ all_matches[1].type # all_matches[2].type
    /\ TokenAt(1) = TokenAt(2)

\* C17: detection-only mode.  Without a strategy the report's processed_text and
\* original_text are both the input text, while report.matches holds the detections,
\* one per distinct span; with a strategy and no detection processed_text is the input
\* text as well.
C17_DetectionOnly ==
    (op = "process" /\ pc = "processed") =>
        /\ original_text = text
        /\ strategy.kind = "none" =>
              /\ processed_text = text
              /\ DistinctSpans(report_matches) = DistinctSpans(all_matches)
              /\ Len(report_matches) = Cardinality(DistinctSpans(all_matches))
        /\ (strategy.kind # "none" /\ report_matches = <<>>) => processed_text = text

\* A processor without a strategy reported detections and left the text as it was.
C17_Witness ==
    /\ op = "process"
    /\ pc = "processed"
    /\ strategy.kind = "none"
    /\ Len(all_matches) > Len(report_matches)
    /\ report_matches # <<>>
    /\ processed_text = text
    /\ original_text = text

\* The summary of a match list in which nothing is rejected.
PlainSummary(ms) ==
    LET types == {ms[i].type : i \in 1..Len(ms)}
    IN  [pii_found |-> Len(ms) > 0,
         total_count |-> Len(ms),
         by_type |-> [ty \in types |-> Cardinality({i \in 1..Len(ms) : ms[i].type = ty})]]

\* detect_pii was asked to validate while the validator is unavailable.
DetectDegraded == op = "detect" /\ use_llm /\ ~is_available

\* C18: degrade to passthrough.  A detect request with use_llm=true and an unavailable
\* validator is never failed; it answers with the matches of the report, every field
\* and the order unchanged, and with the summary over all of them, which is the answer
\* to the same request with use_llm=false.
C18_UnavailablePassthrough ==
    DetectDegraded =>
        /\ pc \in {"detecting", "processed", "done"}
        /\ pc = "done" =>
              /\ final_matches = report_matches
              /\ summary = PlainSummary(report_matches)
              /\ llm_rejected = {}
              /\ llm_validated = {}
              /\ api_calls = <<>>

\* Such a request was answered with a match below the threshold in its result.
C18_Witness ==
    /\ DetectDegraded
    /\ pc = "done"
    /\ \E i \in 1..Len(final_matches) : final_matches[i].confidence < threshold

\* C19: constructing a PIIMatch raises when start < 0, end < start or the confidence is
\* outside [0, 1], and otherwise gives the match with the values it was given, never
\* clamped; so every match that exists has 0 <= start <= end and 0 <= confidence <= 1.
C19_ConstructionValidates ==
    /\ (op = "construct" /\ pc = "raised") =>
          (args.start < 0 \/ args.end < args.start
              \/ args.confidence < 0 \/ args.confidence > 100)
    /\ (op = "construct" /\ pc = "built") =>
          /\ 0 <= args.start /\ args.start <= args.end
          /\ 0 <= args.confidence /\ args.confidence <= 100
          /\ Len(all_matches) = 1
          /\ all_matches[1].start = args.start
          /\ all_matches[1].end = args.end
          /\ all_matches[1].confidence = args.confidence
    /\ \A i \in 1..Len(all_matches) :
          /\ 0 <= all_matches[i].start /\ all_matches[i].start <= all_matches[i].end
          /\ 0 <= all_matches[i].confidence /\ all_matches[i].confidence <= 100

\* A construction with a confidence just above 1 and a valid span raised; the state after
\* it holds no match.
C19_Witness ==
    /\ op = "construct"
    /\ pc = "raised"
    /\ args.confidence = 101
    /\ 0 <= args.start /\ args.start <= args.end
    /\ all_matches = <<>>

\* The Luhn sum of a digit string, from the right: every second digit doubled, and 9
\* taken off a doubled digit above 9.
RECURSIVE LuhnSumFromRight(_)
LuhnSumFromRight(ds) ==
    IF ds = <<>> THEN 0
    ELSE LET n == Len(ds)
             v == DigitValue(ds[n])
         IN  IF n = 1 THEN v
             ELSE LET u == DigitValue(ds[n - 1])
                      x == IF u >= 5 THEN 2 * u - 9 ELSE 2 * u
                  IN  v + x + LuhnSumFromRight(SubSeq(ds, 1, n - 2))

PassesLuhn(ds) == LuhnSumFromRight(ds) % 10 = 0

IsCardNumber(ds) == MinCardLen <= Len(ds) /\ Len(ds) <= MaxCardLen /\ PassesLuhn(ds)

\* C20: for a digit string of 13 to 19 digits that passes the Luhn check, detect reports
\* exactly one match, the whole string with confidence 1.0; after any change of a single
\* digit of such a string it reports no match.
C20_LuhnCards ==
    /\ (op = "card" /\ pc = "detected" /\ IsCardNumber(text)) =>
          /\ Len(report_matches) = 1
          /\ report_matches[1].confidence = 100
          /\ report_matches[1].type = "CREDIT_CARD"
          /\ report_matches[1].text = text
          /\ report_matches[1].start = 0
          /\ report_matches[1].end = Len(text)
    /\ (op = "card" /\ pc = "changed" /\ IsCardNumber(original_text)) =>
          report_matches = <<>>

\* One digit of a card number of 19 digits, not the last one, was changed and nothing
\* was detected.
C20_Witness ==
    /\ op = "card"
    /\ pc = "changed"
    /\ IsCardNumber(original_text)
    /\ Len(original_text) = MaxCardLen
    /\ text[Len(text)] = original_text[Len(text)]
    /\ text # original_text
    /\ report_matches = <<>>

\* The value of a word read as a number in which a letter stands for two digits (A is
\* 10, ..., Z is 35), modulo 97.
RECURSIVE Mod97(_, _)
Mod97(w, acc) ==
    IF w = <<>> THEN acc
    ELSE IF Head(w) \in DigitSet
    THEN Mod97(Tail(w), (acc * 10 + DigitValue(Head(w))) % 97)
    ELSE Mod97(Tail(w), (acc * 100 + LetterValue(Head(w))) % 97)

\* The mod-97 checksum of a word, its first four characters moved to the end, is 1.
ChecksumIsOne(w) == Mod97(SubSeq(w, 5, Len(w)) \o SubSeq(w, 1, 4), 0) = 1

\* 2 letters, 2 digits, 4 to 30 alphanumerics.
IbanShaped(w) ==
    /\ 8 <= Len(w) /\ Len(w) <= 34
    /\ w[1] \in LetterSet /\ w[2] \in LetterSet /\ w[3] \in DigitSet /\ w[4] \in DigitSet
    /\ \A i \in 5..Len(w) : w[i] \in LetterSet \cup DigitSet

\* The country of the word has no entry in the length table, or the word has the length
\* of its entry.
LengthFits(w) ==
    \A e \in IBAN_LENGTHS : e[1] = <<UpperChar(w[1]), UpperChar(w[2])>> => Len(w) = e[2]

\* C21 as stated: for every IBAN-shaped string whose mod-97 checksum is 1, detect
\* reports a match with confidence 1.0, and after its last digit is replaced by a
\* different digit detect reports a match with confidence 0.7.
C21_ChecksumAloneDecides ==
    /\ (op = "iban" /\ pc = "detected" /\ IbanShaped(text) /\ ChecksumIsOne(text)) =>
          (Len(report_matches) = 1 /\ report_matches[1].confidence = 100)
    /\ (op = "iban" /\ pc = "changed" /\ IbanShaped(original_text)
          /\ ChecksumIsOne(original_text)) =>
          (Len(report_matches) = 1 /\ report_matches[1].confidence = 70)

\* C21, amended: for every IBAN-shaped string whose mod-97 checksum is 1 and whose
\* length is the one the table gives for its country, or whose country is not in the
\* table, detect reports one match, the whole string, with confidence 1.0, and after
\* its last digit is replaced by a different digit it reports that match with
\* confidence 0.7; a string of a country of the table with another length is not
\* reported at all, whatever its checksum.
C21_ValidIbanOfFittingLength ==
    /\ (op = "iban" /\ pc = "detected" /\ IbanShaped(text)) =>
          IF ~LengthFits(text) THEN report_matches = <<>>
          ELSE /\ Len(report_matches) = 1
               /\ report_matches[1].text = text
               /\ report_matches[1].start = 0 /\ report_matches[1].end = Len(text)
               /\ ChecksumIsOne(text) => report_matches[1].confidence = 100
    /\ (op = "iban" /\ pc = "changed" /\ IbanShaped(original_text)
          /\ ChecksumIsOne(original_text)) =>
          IF ~LengthFits(original_text) THEN report_matches = <<>>
          ELSE /\ Len(report_matches) = 1
               /\ report_matches[1].text = text
               /\ report_matches[1].confidence = 70

\* The last digit of a valid lower-case Dutch IBAN that ends in a letter was changed, and
\* the match came with confidence 0.7.
C21_Witness ==
    /\ op = "iban"
    /\ pc = "changed"
    /\ ChecksumIsOne(original_text)
    /\ LengthFits(original_text)
    /\ original_text[1] = "n"
    /\ original_text[Len(original_text)] \in LetterSet
    /\ Len(report_matches) = 1
    /\ report_matches[1].confidence = 70

\* The sum of the first nine character values times the weights 7, 3, 1, 7, 3, 1, ...,
\* modulo 10.
RECURSIVE WeightedSum(_, _)
WeightedSum(w, i) ==
    IF i > 9 THEN 0
    ELSE (IF w[i] \in DigitSet THEN DigitValue(w[i]) ELSE LetterValue(w[i]))
            * (CASE i % 3 = 1 -> 7 [] i % 3 = 2 -> 3 [] OTHER -> 1)
         + WeightedSum(w, i + 1)

\* First letter of the set, eight alphanumerics, and a check digit or none.
IsIdCandidate(w) ==
    /\ Len(w) \in {9, 10}
    /\ UpperChar(w[1]) \in {"L", "M", "N", "P", "R", "T", "V", "W", "X", "Y"}
    /\ \A i \in 2..9 : w[i] \in LetterSet \cup DigitSet
    /\ Len(w) = 10 => w[10] \in DigitSet

DigitsInFirstNine(w) == Cardinality({i \in 1..9 : w[i] \in DigitSet})

\* C22: for every German-ID candidate detect reports nothing when the first nine
\* characters hold fewer than 2 digits, and otherwise one match whose confidence is 1.0
\* when the check digit is present and equals the weighted sum of the first nine
\* character values modulo 10, 0.6 when it is present and differs, 0.8 when it is absent.
C22_GermanIdConfidence ==
    (op = "german_id" /\ pc = "detected" /\ IsIdCandidate(text)) =>
        IF DigitsInFirstNine(text) < 2 THEN report_matches = <<>>
        ELSE /\ Len(report_matches) = 1
             /\ report_matches[1].text = text
             /\ report_matches[1].confidence =
                    (IF Len(text) = 9 THEN 80
                     ELSE IF DigitValue(text[10]) = WeightedSum(text, 1) % 10 THEN 100
                     ELSE 60)

\* A candidate in lower case with letters among its nine characters and the correct
\* check digit was reported with confidence 1.0.
C22_Witness ==
    /\ op = "german_id"
    /\ pc = "detected"
    /\ text[1] = "t"
    /\ text[9] = "k"
    /\ Len(text) = 10
    /\ Len(report_matches) = 1
    /\ report_matches[1].confidence = 100

\* An entry of a response that is a verdict object: a dict with a string text and a
\* confidence that is a number or absent.
IsVerdictObject(r) ==
    /\ r.t = "dict"
    /\ r.text.t = "str"
    /\ r.confidence.t \in {"missing", "number"}

\* The candidates of the call that has just returned, and the results it added.
LastCandidates == api_calls[Len(api_calls)]
LastResults == SubSeq(results, Len(results) - Len(LastCandidates) + 1, Len(results))

\* The verdict entry r gives to a match.
VerdictOf(match, r) ==
    Pair(match, ValidationResult(IsPiiOf(r.is_pii),
                                 FloatOf(r.confidence, match.confidence).n,
                                 ReasonOf(r.reason)))

\* The first entry of equal text (letter case aside) whose index is not consumed, or 0.
FirstUnconsumed(match, items, consumed) ==
    LET free == {i \in 1..Len(items) :
                    i \notin consumed /\ Lower(items[i].text.s) = Lower(match.text)}
    IN  IF free = {} THEN 0 ELSE CHOOSE i \in free : \A j \in free : i <= j

\* Every candidate in turn takes the first entry of equal text no candidate has taken.
RECURSIVE PairedOnce(_, _, _)
PairedOnce(matches, items, consumed) ==
    IF matches = <<>> THEN <<>>
    ELSE LET i == FirstUnconsumed(Head(matches), items, consumed)
         IN  IF i = 0
             THEN <<NotInResponse(Head(matches))>> \o PairedOnce(Tail(matches), items, consumed)
             ELSE <<VerdictOf(Head(matches), items[i])>>
                    \o PairedOnce(Tail(matches), items, consumed \cup {i})

\* C23: when a response that is an array of verdict objects is matched to the
\* candidates of its batch, every entry is consumed by at most one candidate and a
\* candidate receives the verdict of an entry of equal text (letter case aside)
\* whenever one that is not yet consumed exists; k candidates of one text and k entries
\* of that text are paired one to one.
C23_EntryConsumedOnce ==
    (/\ pc = "called"
     /\ last_response.kind = "text"
     /\ last_response.wrap = "bare"
     /\ last_response.json.t = "array"
     /\ \A i \in 1..Len(last_response.json.items) :
            IsVerdictObject(last_response.json.items[i]))
    => LastResults = PairedOnce(LastCandidates, last_response.json.items, {})

\* C24: a response whose text from the first '[' to the last ']' is a JSON array of
\* verdict objects has its verdicts applied, whether the array stands alone, in code
\* fences or in other text: the results are those of the array alone, and none of them
\* is the fallback of a parse failure.
C24_DefensiveParsing ==
    (/\ pc = "called"
     /\ last_response.kind = "text"
     /\ last_response.json.t = "array"
     /\ \A i \in 1..Len(last_response.json.items) :
            IsVerdictObject(last_response.json.items[i]))
    => /\ LastResults =
            _validate_batch(batches[batch_idx], TextResponse("bare", last_response.json))
       /\ \A i \in 1..Len(LastResults) :
            LastResults[i].validation.reason # ParseFailedReason

\* The sentence of a match, the matches below the threshold, and the sentences of a list
\* of matches.
SentenceOf(m) == _extract_sentence(text, m)[1]
LowOf == LowConf(InputMatches, threshold)
SentencesOf(ms) == {SentenceOf(ms[i]) : i \in 1..Len(ms)}
InSentence(ms, s) ==
    LET T(m) == SentenceOf(m) = s
    IN  SelectSeq(ms, T)

\* The least number of batches of at most n groups that hold g groups.
CeilDiv(g, n) == CHOOSE c \in 0..g : c * n >= g /\ (c = 0 \/ (c - 1) * n < g)

C27_FinalMatchesOrdered ==
    (op = "detect" /\ pc = "done") =>
        /\ \A i, j \in 1..Len(final_matches) :
              i < j => final_matches[i].start <= final_matches[j].start
        /\ Len(final_matches) = Len(report_matches)
        /\ \A i \in 1..Len(final_matches) :
              /\ final_matches[i].start = report_matches[i].start
              /\ final_matches[i].end = report_matches[i].end

\* Entry r of a response has the text of match m (letter case aside) and an is_pii
\* value that is falsy.
RejectsMatch(r, m) ==
    /\ r.t = "dict"
    /\ r.text.t = "str"
    /\ Lower(r.text.s) = Lower(m.text)
    /\ \/ r.is_pii.t \in {"false", "null"}
       \/ r.is_pii.t = "number" /\ r.is_pii.n = 0
       \/ r.is_pii.t = "str" /\ r.is_pii.s = <<>>

\* C28: a result of validate_low_confidence has is_pii false only if its match is below
\* the threshold and the response to the call of its batch holds an entry of the
\* match's text (letter case aside) whose is_pii value is falsy; auto-approval,
\* unavailability, an API exception, a parse failure, a missing entry and an entry
\* without is_pii all give is_pii true.
C28_ConservativeVerdicts ==
    /\ \A i \in 1..Len(results) :
          ~results[i].validation.is_pii =>
              /\ results[i].match.confidence < threshold
              /\ is_available
              /\ batch_idx > 0
              /\ results[i].validation.reason \notin
                    {HighConfidenceReason, UnavailableReason, NotInResponseReason,
                     ParseFailedReason}
                    \cup {LLMErrorReason(e) : e \in APIErrors}
    /\ pc = "called" =>
          \A i \in 1..Len(LastResults) :
              ~LastResults[i].validation.is_pii =>
                  /\ last_response.kind = "text"
                  /\ last_response.json.t = "array"
                  /\ \E k \in 1..Len(last_response.json.items) :
                        RejectsMatch(last_response.json.items[k], LastResults[i].match)

\* One call returned a rejection for one match and nothing for another, which stayed
\* PII.
C28_Witness ==
    /\ pc = "called"
    /\ \E i, j \in 1..Len(LastResults) :
          /\ ~LastResults[i].validation.is_pii
          /\ LastResults[j].validation.is_pii
          /\ LastResults[j].validation.reason = NotInResponseReason
    /\ \E k \in 1..Len(last_response.json.items) :
          last_response.json.items[k].t = "dict"
            /\ last_response.json.items[k].is_pii.t = "missing"

\* The placeholders of the default redaction format.
Placeholders == {<<"[">> \o TypeValue(ty) \o <<"]">> : ty \in {"PHONE", "NAME"}}

\* A text without the placeholders in it, read from left to right.
RECURSIVE WithoutPlaceholders(_)
WithoutPlaceholders(t) ==
    IF t = <<>> THEN <<>>
    ELSE LET here == {ph \in Placeholders : Len(ph) <= Len(t) /\ SubSeq(t, 1, Len(ph)) = ph}
         IN  IF here = {} THEN <<Head(t)>> \o WithoutPlaceholders(Tail(t))
             ELSE LET ph == CHOOSE q \in here : TRUE
                  IN  WithoutPlaceholders(SubSeq(t, Len(ph) + 1, Len(t)))

\* The characters of a text that lie in no span of a list of matches, in their order.
RECURSIVE OutsideSpans(_, _, _)
OutsideSpans(t, ms, pos) ==
    IF pos >= Len(t) THEN <<>>
    ELSE (IF \E i \in 1..Len(ms) : ms[i].start <= pos /\ pos < ms[i].end
          THEN <<>> ELSE <<t[pos + 1]>>)
         \o OutsideSpans(t, ms, pos + 1)

\* C29: whatever spans the detectors report, partially overlapping and nested ones
\* included, the text a processor with a RedactionStrategy returns is, its placeholders
\* removed, the original characters outside every reported span in their order: no
\* character inside a reported span survives.
C29_RedactionComplete ==
    (op = "process" /\ pc = "processed" /\ strategy.kind = "redaction") =>
        WithoutPlaceholders(processed_text) = OutsideSpans(text, report_matches, 0)

\* What apply put in the place of the one match it was given.
MaskedPart ==
    SubSeq(processed_text, all_matches[1].start + 1,
           Len(processed_text) - (Len(text) - all_matches[1].end))

\* C30: for every number k >= 0 of visible characters, 0 included, and every non-empty
\* value, the replacement masking makes holds at most 2k characters of the value, none
\* when k is 0; all its other characters are mask characters.
C30_MaskRevealsAtMost2k ==
    (Applied /\ strategy.kind = "masking" /\ Len(all_matches) = 1
        /\ all_matches[1].text # <<>>) =>
        Cardinality({i \in 1..Len(MaskedPart) : MaskedPart[i] # strategy.mask_char})
            <= 2 * strategy.visible_chars

\* The model id a model name stands for.
ModelIdOf(name) ==
    CASE name = "haiku" -> "claude-haiku-4-5-20250929"
      [] name = "sonnet" -> "claude-sonnet-4-5-20250929"
      [] name = "opus" -> "claude-opus-4-5-20251101"

\* Every key of the cache maps to a validator of its model, every call that has returned
\* has returned a validator of the model it asked for, and a call that began after a
\* call for its model had returned has constructed no validator.
CacheConsistent ==
    /\ \A k \in DOMAIN _llm_validators :
          /\ k \in ClaudeModelName
          /\ _llm_validators[k].model = ModelIdOf(k)
          /\ _llm_validators[k].id \in 1..Len(calls)
    /\ \A i \in 1..Len(calls) :
          /\ calls[i].pc = "done" =>
                /\ calls[i].returned.model = ModelIdOf(calls[i].model)
                /\ calls[i].returned.id \in 1..Len(calls)
                /\ calls[calls[i].returned.id].model = calls[i].model
          /\ calls[i].after_return =>
                /\ calls[i].model \in DOMAIN _llm_validators
                /\ calls[i].validator = NoValidator
                /\ calls[i].pc \in {"check", "return", "done"}

\* A step keeps every key of the cache with a validator of the same model, and a call
\* that returns returns the validator the cache holds for its model.
CacheStep ==
    /\ \A k \in DOMAIN _llm_validators :
          /\ k \in DOMAIN _llm_validators'
          /\ _llm_validators'[k].model = _llm_validators[k].model
    /\ \A i \in 1..Len(calls) :
          (calls[i].pc = "return" /\ calls'[i].pc = "done") =>
              /\ calls[i].model \in DOMAIN _llm_validators
              /\ calls'[i].returned = _llm_validators[calls[i].model]

\* C26: under every interleaving of get_llm_validator calls, every key of the cache
\* maps to a validator configured for exactly that model, no entry is ever replaced by
\* a validator of another model, every call returns a validator for the model it asked
\* for, and a call that begins after a call for its model has returned creates nothing
\* and returns the instance the cache holds.
C26_CacheSafe == []CacheConsistent /\ [][CacheStep]_vars

\* Two calls for one model raced: both found the cache empty, the first stored and
\* returned its validator, the second replaced it with its own, and a call that began
\* after that returned the validator of the second.
C26_Witness ==
    /\ op = "get_llm_validator"
    /\ Len(calls) = 3
    /\ \A i \in 1..3 : calls[i].pc = "done" /\ calls[i].model = "sonnet"
    /\ calls[1].returned.id = 1
    /\ calls[2].returned.id = 2
    /\ calls[3].after_return
    /\ calls[3].returned.id = 2
    /\ _llm_validators["sonnet"].id = 2

====
